---- MODULE Spec2Model ----
(***************************************************************************)
(* A model of fab-pr-pipeline: the merge-readiness evaluator, the per-PR   *)
(* circuit breaker, the retry policy and the per-run processing loop.      *)
(***************************************************************************)
EXTENDS Integers, Sequences, FiniteSets, TLC

VARIABLES
    view,        \* the prView handed to mergeAllowed (evaluator specification)
    evalOut,     \* what mergeAllowed / overallChecksState / classifyCIFailure returned for view
    cb,          \* the CircuitBreaker: failures, skipsRemaining and its config
    seg,         \* per PR: the breaker calls made since its last RecordSuccess
    segStart,    \* per PR: how the current segment began
    mu,          \* the breaker's mutex: the goroutine holding it, or "free"
    pc,          \* per goroutine: where it stands in its current call
    call,        \* per goroutine: the method it is calling and on which PR
    loaded,      \* per goroutine: the breaker fields as it last read them
    callsLeft,   \* per goroutine: calls it has yet to make
    returned,    \* per goroutine: what its last IsOpen call returned
    lin,         \* the breaker after the same calls made one at a time
    linReturned, \* per goroutine: what its last IsOpen returned in that order
    retryIn,     \* the retry policy's input: per-invocation results and config
    retryOut,    \* what Retryable and RetryableWithResult did with retryIn
    errIn,       \* the error handed to classifyError
    errKind,     \* what classifyError returned for errIn
    dedupFile,   \* the persisted dedup state file
    dedupNow,    \* the wall clock of the dedup gate, in hours
    dedupGate,   \* the last decision of shouldPostToDiscord and what it saw
    dedupHashes, \* two outcome sequences and their hashResults
    dedupLoaded, \* what the last loadState read and returned
    reported,    \* the report channel: what the last two runs of the job sent it
    noteIn,      \* a notification to send: its kind and the length of its variable part
    noteOut,     \* the text discordSendMessage posted for noteIn
    flags,       \* the command-line flags of the pipeline process
    phase,       \* where main stands: "idle", "loop" or "exited"
    runNo,       \* the runs started so far
    selected,    \* the candidates of the run, filtered and sorted
    archivedRepos, \* the batch-fetched archived set, or nil
    acted,       \* the loop's count of candidates taken
    runResults,  \* out.Results: the outcomes of the run so far
    lastIter,    \* the loop iteration made last: its snapshot and its calls
    github,      \* what the pipeline has done on GitHub: merges and comments
    owed,        \* per PR: failing runs in a row, skips the documented breaker owes
    emitted      \* what the process wrote and sent when it ended

evalVars == <<view, evalOut>>
breakerVars == <<cb, seg, segStart>>
concVars == <<mu, pc, call, loaded, callsLeft, returned, lin, linReturned>>
retryVars == <<retryIn, retryOut>>
classifyVars == <<errIn, errKind>>
dedupVars == <<dedupFile, dedupNow, dedupGate, dedupHashes, dedupLoaded, reported, noteIn,
               noteOut>>
runVars == <<flags, phase, runNo, selected, archivedRepos, acted, runResults, lastIter,
             github, owed, emitted>>
vars == <<evalVars, breakerVars, concVars, retryVars, classifyVars, dedupVars, runVars>>

(***************************************************************************)
(* Bounds of the model.                                                    *)
(***************************************************************************)
MaxEntries == 2
MaxThreshold == 2
MaxSkipRuns == 2
MaxOps == 6
MaxCalls == 2
MaxTries == 3
MaxFragments == 2
MaxClock == 3
MaxOutcomes == 2
MaxSlack == 10
MaxPRsFlag == 2
MaxRuns == 3

(***************************************************************************)
(* Strings.  The code normalises its inputs with strings.TrimSpace,        *)
(* strings.ToUpper and strings.ToLower; the three are modelled by what     *)
(* they do on the vocabulary of the model, which holds padded, lower-case  *)
(* and mixed-case spellings next to the canonical ones.                    *)
(***************************************************************************)
TrimSpace(s) ==
    CASE s = " MERGEABLE "       -> "MERGEABLE"
      [] s = " REVIEW_REQUIRED " -> "REVIEW_REQUIRED"
      [] s = " success "         -> "success"
      [] s = " CheckRun"         -> "CheckRun"
      [] s = " "                 -> ""
      [] s = " Do Not Touch "    -> "Do Not Touch"
      [] s = " FAILURE "         -> "FAILURE"
      [] OTHER                   -> s

ToUpper(s) ==
    CASE s = "mergeable"         -> "MERGEABLE"
      [] s = "conflicting"       -> "CONFLICTING"
      [] s = "unknown"           -> "UNKNOWN"
      [] s = "changes_requested" -> "CHANGES_REQUESTED"
      [] s = "review_required"   -> "REVIEW_REQUIRED"
      [] s = "approved"          -> "APPROVED"
      [] s = "success"           -> "SUCCESS"
      [] s = "failure"           -> "FAILURE"
      [] s = "FaIlUrE"           -> "FAILURE"
      [] s = "pending"           -> "PENDING"
      [] s = "completed"         -> "COMPLETED"
      [] s = "in_progress"       -> "IN_PROGRESS"
      [] s = " mergeable "       -> " MERGEABLE "
      [] s = " success "         -> " SUCCESS "
      [] OTHER                   -> s

ToLower(s) ==
    CASE s = "MERGEABLE"         -> "mergeable"
      [] s = "CONFLICTING"       -> "conflicting"
      [] s = "UNKNOWN"           -> "unknown"
      [] s = "SUCCESS"           -> "success"
      [] s = "FAILURE"           -> "failure"
      [] s = "PENDING"           -> "pending"
      [] s = "Not Found"         -> "not found"
      [] s = "Timeout"           -> "timeout"
      [] s = "APPROVED"          -> "approved"
      [] s = "CHANGES_REQUESTED" -> "changes_requested"
      [] s = "REVIEW_REQUIRED"   -> "review_required"
      [] s = "Do Not Touch"      -> "do not touch"
      [] s = "WIP: DO NOT TOUCH" -> "wip: do not touch"
      [] s = "Fix the parser"    -> "fix the parser"
      [] s = "Bump deps"         -> "bump deps"
      [] s = "Phrazzld"          -> "phrazzld"
      [] s = "Unit Tests"        -> "unit tests"
      [] s = "ESLint"            -> "eslint"
      [] s = "reviewDecision:"   -> "reviewdecision:"
      [] s = "PR_node1"          -> "pr_node1"
      [] s = "PR_node2"          -> "pr_node2"
      [] s = "Lint-fix subagent dispatched" -> "lint-fix subagent dispatched"
      [] s = "HTTP 404"          -> "http 404"
      [] s = "Unauthorized"      -> "unauthorized"
      [] s = "Bad Credentials"   -> "bad credentials"
      [] s = "Rate Limit"        -> "rate limit"
      [] s = "TLS"               -> "tls"
      [] OTHER                   -> s

(***************************************************************************)
(* statusRollupEntry and overallChecksState.                               *)
(***************************************************************************)
Entry(t, n, st, c, s) ==
    [Typename |-> t, Name |-> n, Status |-> st, Conclusion |-> c, State |-> s]

\* One pass of the loop of overallChecksState over entry e: "FAILURE" when
\* the loop returns at e, "pending" when it sets the flag, "ok" otherwise.
entryStep(e) ==
    LET typeName == TrimSpace(e.Typename)
    IN  CASE typeName = "CheckRun" ->
               LET status     == ToUpper(TrimSpace(e.Status))
                   conclusion == ToUpper(TrimSpace(e.Conclusion))
               IN  IF status /= "" /\ status /= "COMPLETED" THEN "pending"
                   ELSE IF conclusion = "" THEN "pending"
                   ELSE IF conclusion \in {"SUCCESS", "NEUTRAL", "SKIPPED"} THEN "ok"
                   ELSE "FAILURE"
          [] typeName = "StatusContext" ->
               LET state == ToUpper(TrimSpace(e.State))
               IN  IF state = "" THEN "pending"
                   ELSE IF state = "SUCCESS" THEN "ok"
                   ELSE IF state = "PENDING" THEN "pending"
                   ELSE IF state \in {"FAILURE", "ERROR"} THEN "FAILURE"
                   ELSE "pending"
          [] OTHER -> "ok"

\* A loop that reports PENDING at the first pending entry it meets.
RECURSIVE checksLoopPendingWins(_, _, _)
checksLoopPendingWins(entries, i, pending) ==
    IF i > Len(entries)
    THEN "SUCCESS"
    ELSE LET r == entryStep(entries[i])
         IN  IF r = "FAILURE" THEN "FAILURE"
             ELSE IF r = "pending" THEN "PENDING"
             ELSE checksLoopPendingWins(entries, i + 1, pending)

\* The loop from entry i on, with the pending flag as it stands.
RECURSIVE checksLoop(_, _, _)
checksLoop(entries, i, pending) ==
    IF i > Len(entries)
    THEN IF pending THEN "PENDING" ELSE "SUCCESS"
    ELSE LET r == entryStep(entries[i])
         IN  IF r = "FAILURE" THEN "FAILURE"
             ELSE checksLoop(entries, i + 1, pending \/ r = "pending")

overallChecksState(entries) ==
    IF Len(entries) = 0 THEN "" ELSE checksLoop(entries, 1, FALSE)

(***************************************************************************)
(* mergeAllowed: <<allowed, reason>>.                                      *)
(***************************************************************************)
\* mergeAllowed without its REVIEW_REQUIRED gate.
mergeAllowedNoReviewRequired(pr) ==
    LET mergeable == ToUpper(TrimSpace(pr.Mergeable))
        state     == ToUpper(TrimSpace(overallChecksState(pr.StatusCheckRollup)))
        decision  == ToUpper(TrimSpace(pr.ReviewDecision))
    IN  IF mergeable /= "MERGEABLE" THEN <<FALSE, "mergeable_" \o ToLower(mergeable)>>
        ELSE IF state = "" THEN <<FALSE, "checks_unknown">>
        ELSE IF state /= "SUCCESS" THEN <<FALSE, "checks_" \o ToLower(state)>>
        ELSE IF decision = "CHANGES_REQUESTED" THEN <<FALSE, "review_changes_requested">>
        ELSE <<TRUE, "">>

\* mergeAllowed with the review gate ahead of the checks gates.
mergeAllowedReviewFirst(pr) ==
    LET mergeable == ToUpper(TrimSpace(pr.Mergeable))
        state     == ToUpper(TrimSpace(overallChecksState(pr.StatusCheckRollup)))
        decision  == ToUpper(TrimSpace(pr.ReviewDecision))
    IN  IF mergeable /= "MERGEABLE" THEN <<FALSE, "mergeable_" \o ToLower(mergeable)>>
        ELSE IF decision = "CHANGES_REQUESTED" THEN <<FALSE, "review_changes_requested">>
        ELSE IF decision = "REVIEW_REQUIRED" THEN <<FALSE, "review_required">>
        ELSE IF state = "" THEN <<FALSE, "checks_unknown">>
        ELSE IF state /= "SUCCESS" THEN <<FALSE, "checks_" \o ToLower(state)>>
        ELSE <<TRUE, "">>

mergeAllowed(pr) ==
    LET mergeable == ToUpper(TrimSpace(pr.Mergeable))
        state     == ToUpper(TrimSpace(overallChecksState(pr.StatusCheckRollup)))
        decision  == ToUpper(TrimSpace(pr.ReviewDecision))
    IN  IF mergeable /= "MERGEABLE" THEN <<FALSE, "mergeable_" \o ToLower(mergeable)>>
        ELSE IF state = "" THEN <<FALSE, "checks_unknown">>
        ELSE IF state /= "SUCCESS" THEN <<FALSE, "checks_" \o ToLower(state)>>
        ELSE IF decision = "CHANGES_REQUESTED" THEN <<FALSE, "review_changes_requested">>
        ELSE IF decision = "REVIEW_REQUIRED" THEN <<FALSE, "review_required">>
        ELSE <<TRUE, "">>

(***************************************************************************)
(* Errors and classifyError.  The text of an error is the set of the       *)
(* fragments it is made of; strings.Contains(msg, indicator) holds when a  *)
(* fragment is the indicator or has it as a substring.                     *)
(***************************************************************************)
NoError == [isNil |-> TRUE, text |-> {}]

Err(text) == [isNil |-> FALSE, text |-> text]

\* <<a, b>>: a is a proper substring of fragment b.
SubstringPairs ==
    {<<"timeout", "i/o timeout">>,
     <<"temporary", "temporary failure">>,
     <<"not found", "ref not found">>,
     <<"not found", "resource not found">>,
     <<"not found", "command not found">>,
     <<"merge conflict", "merge conflict with the base branch">>,
     <<"is archived", "repository is archived">>,
     <<"archived", "repository is archived">>,
     <<"404", "http 404">>,
     <<" archived ", "repo archived now">>,
     <<"archived", "repo archived now">>,
     <<"archived", "repo was archived">>,
     <<"500", "discord send failed (500)">>,
     <<"do not touch", "wip: do not touch">>,
     <<"lint", "golangci-lint">>,
     <<"golangci", "golangci-lint">>,
     <<"lint", "lint-fix subagent dispatched">>,
     <<"test", "unit tests">>,
     <<"lint", "eslint">>}

Contains(msg, indicator) ==
    \E f \in msg : f = indicator \/ <<indicator, f>> \in SubstringPairs

permanentIndicators ==
    <<"not found", "404", " archived ", "is archived", "permission denied", "403",
      "unauthorized", "already merged", "merge conflict", "closed pull request",
      "ref not found", "no such file or directory", "command not found",
      "could not read username", "bad credentials", "invalid credentials",
      "resource not found">>

transientIndicators ==
    <<"rate limit", "timeout", "temporary failure", "server error", "500", "502",
      "503", "504", "connection refused", "connection reset", "network",
      "i/o timeout", "no route to host", "certificate", "tls", "temporary">>

\* A classification that looks for the transient indicators first.
classifyErrorTransientFirst(err) ==
    IF err.isNil THEN "Unknown"
    ELSE LET msg == {ToLower(f) : f \in err.text}
         IN  IF \E i \in DOMAIN transientIndicators :
                    Contains(msg, transientIndicators[i])
             THEN "Transient"
             ELSE IF \E i \in DOMAIN permanentIndicators :
                        Contains(msg, permanentIndicators[i])
             THEN "Permanent"
             ELSE "Transient"

\* A classification for which an error that matches no indicator is Unknown.
classifyErrorUnmatchedUnknown(err) ==
    IF err.isNil THEN "Unknown"
    ELSE LET msg == {ToLower(f) : f \in err.text}
         IN  IF \E i \in DOMAIN permanentIndicators : Contains(msg, permanentIndicators[i])
             THEN "Permanent"
             ELSE IF \E i \in DOMAIN transientIndicators :
                        Contains(msg, transientIndicators[i])
             THEN "Transient"
             ELSE "Unknown"

classifyError(err) ==
    IF err.isNil THEN "Unknown"
    ELSE LET msg == {ToLower(f) : f \in err.text}
         IN  IF \E i \in DOMAIN permanentIndicators : Contains(msg, permanentIndicators[i])
             THEN "Permanent"
             ELSE IF \E i \in DOMAIN transientIndicators :
                        Contains(msg, transientIndicators[i])
             THEN "Transient"
             ELSE "Transient"

IsTransient(err) == classifyError(err) = "Transient"

IsPermanent(err) == classifyError(err) = "Permanent"

(***************************************************************************)
(* The retry policy.  fn is given as results: results[k] is what the k-th  *)
(* invocation of fn returns, [err, val].  The value returned tells, next   *)
(* to err (and val), how many invocations were made and for how long the   *)
(* policy slept between them.                                              *)
(***************************************************************************)
RetryConfig(maxAttempts, baseDelay, maxDelay) ==
    [MaxAttempts |-> maxAttempts, BaseDelay |-> baseDelay, MaxDelay |-> maxDelay]

retryCfg == RetryConfig(3, 500, 5000)

defaultRetryConfig == RetryConfig(3, 500, 5000)

Zero == "zero"

Min(a, b) == IF a < b THEN a ELSE b

\* A loop that goes on to the next attempt whatever the kind of the error.
RECURSIVE retryableLoopRetriesPermanent(_, _, _, _)
retryableLoopRetriesPermanent(results, config, attempt, lastErr) ==
    IF attempt > config.MaxAttempts
    THEN [err |-> lastErr, calls |-> attempt - 1, slept |-> 0]
    ELSE LET err == results[attempt].err
         IN  IF err.isNil THEN [err |-> NoError, calls |-> attempt, slept |-> 0]
             ELSE retryableLoopRetriesPermanent(results, config, attempt + 1, err)

\* The loop of Retryable from attempt on.  The delay is computed and dropped
\* (_ = delay): nothing is slept.
RECURSIVE retryableLoop(_, _, _, _)
retryableLoop(results, config, attempt, lastErr) ==
    IF attempt > config.MaxAttempts
    THEN [err |-> lastErr, calls |-> attempt - 1, slept |-> 0]
    ELSE LET err == results[attempt].err
         IN  IF err.isNil THEN [err |-> NoError, calls |-> attempt, slept |-> 0]
             ELSE IF classifyError(err) = "Permanent"
             THEN [err |-> err, calls |-> attempt, slept |-> 0]
             ELSE LET delay == IF attempt < config.MaxAttempts
                               THEN Min(config.BaseDelay * 2 ^ (attempt - 1), config.MaxDelay)
                               ELSE 0
                  IN  retryableLoop(results, config, attempt + 1, err)

Retryable(results, cfg) == retryableLoop(results, cfg, 1, NoError)

\* A loop that makes one attempt more than MaxAttempts.
RECURSIVE retryWithResultLoopOneMore(_, _, _, _)
retryWithResultLoopOneMore(results, cfg, attempt, lastErr) ==
    IF attempt > cfg.MaxAttempts + 1
    THEN [val |-> Zero, err |-> lastErr, calls |-> attempt - 1, slept |-> 0]
    ELSE LET err == results[attempt].err
         IN  IF err.isNil
             THEN [val |-> results[attempt].val, err |-> NoError, calls |-> attempt,
                   slept |-> 0]
             ELSE IF classifyError(err) = "Permanent"
             THEN [val |-> Zero, err |-> err, calls |-> attempt, slept |-> 0]
             ELSE retryWithResultLoopOneMore(results, cfg, attempt + 1, err)

\* The loop of RetryableWithResult from attempt on.
RECURSIVE retryWithResultLoop(_, _, _, _)
retryWithResultLoop(results, cfg, attempt, lastErr) ==
    IF attempt > cfg.MaxAttempts
    THEN [val |-> Zero, err |-> lastErr, calls |-> attempt - 1, slept |-> 0]
    ELSE LET err == results[attempt].err
         IN  IF err.isNil
             THEN [val |-> results[attempt].val, err |-> NoError, calls |-> attempt,
                   slept |-> 0]
             ELSE IF classifyError(err) = "Permanent"
             THEN [val |-> Zero, err |-> err, calls |-> attempt, slept |-> 0]
             ELSE retryWithResultLoop(results, cfg, attempt + 1, err)

RetryableWithResult(results, cfg) == retryWithResultLoop(results, cfg, 1, NoError)

(***************************************************************************)
(* The retry specification: results and a config are drawn, then both      *)
(* primitives run on them.                                                 *)
(***************************************************************************)
Ok(val) == [err |-> NoError, val |-> val]

Failed(err) == [err |-> err, val |-> Zero]

ErrorSamples == {Err({"Timeout"}), Err({"boom"}), Err({"Not Found"}), Err({"404", "timeout"})}

AttemptResults == {Ok("v1"), Ok("v2")} \cup {Failed(e) : e \in ErrorSamples}

NotRetried ==
    [done |-> FALSE,
     plain |-> [err |-> NoError, calls |-> 0, slept |-> 0],
     withResult |-> [val |-> Zero, err |-> NoError, calls |-> 0, slept |-> 0]]

InitRetry ==
    /\ retryIn \in [results : [1..(MaxTries + 1) -> AttemptResults],
                     cfg : {RetryConfig(n, 500, 5000) : n \in 0..MaxTries}]
    /\ retryOut = NotRetried

Retry ==
    /\ ~retryOut.done
    /\ retryOut' = [done       |-> TRUE,
                    plain      |-> Retryable(retryIn.results, retryIn.cfg),
                    withResult |-> RetryableWithResult(retryIn.results, retryIn.cfg)]
    /\ UNCHANGED retryIn

(***************************************************************************)
(* The classification specification: an error is drawn, then classified.   *)
(* A message is made of up to MaxFragments fragments; the fragments hold   *)
(* every indicator of classifyError, some in another case or inside a      *)
(* longer text, and texts that hold none.                                  *)
(***************************************************************************)
\* Fragments that hold a permanent indicator.
PermanentFragments ==
    {"Not Found", "HTTP 404", "repo archived now", "repository is archived",
     "permission denied", "403", "Unauthorized", "already merged",
     "merge conflict with the base branch", "closed pull request", "ref not found",
     "no such file or directory", "command not found", "could not read username",
     "Bad Credentials", "invalid credentials", "resource not found"}

\* Fragments that hold a transient indicator and no permanent one.
TransientFragments ==
    {"Rate Limit", "Timeout", "temporary failure", "server error", "500", "502", "503",
     "504", "connection refused", "connection reset", "network", "i/o timeout",
     "no route to host", "certificate", "TLS", "temporary"}

\* Fragments that hold no indicator.
OtherFragments == {"boom", "archived", "exit status 1", ""}

ClassifyFragments == PermanentFragments \cup TransientFragments \cup OtherFragments

\* The messages of at most n fragments.
RECURSIVE Messages(_)
Messages(n) ==
    IF n = 0 THEN {{}}
    ELSE LET shorter == Messages(n - 1)
         IN  shorter \cup {t \cup {f} : t \in shorter, f \in ClassifyFragments}

ErrorInputs == {NoError} \cup {Err(text) : text \in Messages(MaxFragments) \ {{}}}

NotClassified == "not classified"

InitClassify ==
    /\ errIn \in ErrorInputs
    /\ errKind = NotClassified

Classify ==
    /\ errKind = NotClassified
    /\ errKind' = classifyError(errIn)
    /\ UNCHANGED errIn

(***************************************************************************)
(* The evaluator specification: a snapshot is drawn, then evaluated.       *)
(***************************************************************************)
CheckRunEntries ==
    {Entry("CheckRun", "ci", "COMPLETED", c, "") :
        c \in {"", "SUCCESS", "NEUTRAL", "SKIPPED", "FAILURE", "CANCELLED", "failure"}}
    \cup {Entry("CheckRun", "ci", "", c, "") : c \in {"SUCCESS", "FAILURE"}}
    \cup {Entry("CheckRun", "ci", "IN_PROGRESS", c, "") : c \in {"", "FAILURE"}}
    \cup {Entry("CheckRun", "ci", "completed", "SUCCESS", "")}

StatusContextEntries ==
    {Entry("StatusContext", "ci", "", "", s) :
        s \in {"", "SUCCESS", "PENDING", "FAILURE", "ERROR", "EXPECTED", " success "}}

OtherEntries ==
    {Entry("Unknown", "ci", "COMPLETED", "FAILURE", ""),
     Entry(" CheckRun", "ci", "COMPLETED", "FAILURE", "")}

Entries == CheckRunEntries \cup StatusContextEntries \cup OtherEntries

Rollups == UNION {[1..n -> Entries] : n \in 0..MaxEntries}

MergeableValues == {"MERGEABLE", " MERGEABLE ", "mergeable", "CONFLICTING", "UNKNOWN", ""}

ReviewValues ==
    {"APPROVED", "", "CHANGES_REQUESTED", "REVIEW_REQUIRED", "changes_requested",
     " REVIEW_REQUIRED "}

NotEvaluated == [done |-> FALSE, checks |-> "", allowed |-> FALSE, reason |-> ""]

InitEval ==
    /\ view \in [Mergeable : MergeableValues, ReviewDecision : ReviewValues,
                  StatusCheckRollup : Rollups]
    /\ evalOut = NotEvaluated

Evaluate ==
    /\ ~evalOut.done
    /\ evalOut' = [done    |-> TRUE,
                   checks  |-> overallChecksState(view.StatusCheckRollup),
                   allowed |-> mergeAllowed(view)[1],
                   reason  |-> mergeAllowed(view)[2]]
    /\ UNCHANGED view

(***************************************************************************)
(* CircuitBreaker.  The two Go maps are total functions here: a key that   *)
(* is absent from a Go map reads as 0, and delete() makes it read as 0.    *)
(***************************************************************************)
PRs == {"pr1", "pr2"}

\* A breaker that comes with one failure on record for every PR, as one kept
\* from an earlier run would.
NewCircuitBreakerWithHistory(failureThreshold, skipRuns) ==
    [failures         |-> [p \in PRs |-> 1],
     skipsRemaining   |-> [p \in PRs |-> 0],
     failureThreshold |-> failureThreshold,
     skipRuns         |-> skipRuns]

NewCircuitBreaker(failureThreshold, skipRuns) ==
    [failures         |-> [p \in PRs |-> 0],
     skipsRemaining   |-> [p \in PRs |-> 0],
     failureThreshold |-> failureThreshold,
     skipRuns         |-> skipRuns]

\* RecordFailure that arms the skip budget at every failure past the threshold.
RecordFailureRearms(b, prURL) ==
    LET failures == [b.failures EXCEPT ![prURL] = @ + 1]
    IN  [b EXCEPT
           !.failures = failures,
           !.skipsRemaining =
               IF failures[prURL] >= b.failureThreshold
               THEN [@ EXCEPT ![prURL] = b.skipRuns]
               ELSE @]

RecordFailure(b, prURL) ==
    LET failures == [b.failures EXCEPT ![prURL] = @ + 1]
    IN  [b EXCEPT
           !.failures = failures,
           !.skipsRemaining =
               IF failures[prURL] >= b.failureThreshold /\ b.skipsRemaining[prURL] = 0
               THEN [@ EXCEPT ![prURL] = b.skipRuns]
               ELSE @]

\* RecordSuccess that clears the failure count and leaves the skip budget.
RecordSuccessKeepsSkips(b, prURL) ==
    [b EXCEPT !.failures = IF @[prURL] > 0 THEN [@ EXCEPT ![prURL] = 0] ELSE @]

RecordSuccess(b, prURL) ==
    [b EXCEPT
       !.failures       = IF @[prURL] > 0 THEN [@ EXCEPT ![prURL] = 0] ELSE @,
       !.skipsRemaining = IF @[prURL] > 0 THEN [@ EXCEPT ![prURL] = 0] ELSE @]

\* IsOpen that spends the skip budget and never clears the failure count.
IsOpenKeepsFailures(b, prURL) ==
    IF b.skipsRemaining[prURL] > 0
    THEN [ret |-> TRUE, cb |-> [b EXCEPT !.skipsRemaining[prURL] = @ - 1]]
    ELSE [ret |-> FALSE, cb |-> b]

\* IsOpen that reports an open circuit without spending the skip budget.
IsOpenNoDecrement(b, prURL) ==
    [ret |-> b.skipsRemaining[prURL] > 0, cb |-> b]

\* IsOpen: the value returned and the breaker it leaves.
IsOpen(b, prURL) ==
    IF b.skipsRemaining[prURL] > 0
    THEN LET skips == [b.skipsRemaining EXCEPT ![prURL] = @ - 1]
         IN  [ret |-> TRUE,
              cb  |-> [b EXCEPT
                         !.skipsRemaining = skips,
                         !.failures = IF skips[prURL] = 0
                                      THEN [@ EXCEPT ![prURL] = 0]
                                      ELSE @]]
    ELSE [ret |-> FALSE, cb |-> b]

(***************************************************************************)
(* The breaker specification: any sequence of calls on one breaker.  seg   *)
(* and segStart are history: what was called on a PR, with what it         *)
(* returned and the skip budget before and after, since that PR's last     *)
(* RecordSuccess (or since NewCircuitBreaker).                             *)
(***************************************************************************)
Fresh == [how |-> "new", wasOpen |-> FALSE, failuresAfter |-> 0, skipsAfter |-> 0]

RECURSIVE SumLen(_, _)
SumLen(f, S) ==
    IF S = {} THEN 0
    ELSE LET p == CHOOSE q \in S : TRUE IN Len(f[p]) + SumLen(f, S \ {p})

\* The calls on record, over all PRs.
OpsLogged == SumLen(seg, PRs)

Called(op, ret, before, after, prURL) ==
    [op            |-> op,
     ret           |-> ret,
     skipsBefore   |-> before.skipsRemaining[prURL],
     skipsAfter    |-> after.skipsRemaining[prURL],
     failuresAfter |-> after.failures[prURL]]

InitBreaker ==
    /\ \E ft \in 1..MaxThreshold, sr \in 0..MaxSkipRuns : cb = NewCircuitBreaker(ft, sr)
    /\ seg = [p \in PRs |-> <<>>]
    /\ segStart = [p \in PRs |-> Fresh]

CallRecordFailure(p) ==
    /\ OpsLogged < MaxOps
    /\ cb' = RecordFailure(cb, p)
    /\ seg' = [seg EXCEPT ![p] = Append(@, Called("RecordFailure", FALSE, cb, cb', p))]
    /\ UNCHANGED segStart

CallIsOpen(p) ==
    /\ OpsLogged < MaxOps
    /\ cb' = IsOpen(cb, p).cb
    /\ seg' = [seg EXCEPT ![p] = Append(@, Called("IsOpen", IsOpen(cb, p).ret, cb, cb', p))]
    /\ UNCHANGED segStart

CallRecordSuccess(p) ==
    /\ seg[p] /= <<>>
    /\ cb' = RecordSuccess(cb, p)
    /\ seg' = [seg EXCEPT ![p] = <<>>]
    /\ segStart' = [segStart EXCEPT ![p] =
                       [how           |-> "success",
                        wasOpen       |-> cb.skipsRemaining[p] > 0,
                        failuresAfter |-> cb'.failures[p],
                        skipsAfter    |-> cb'.skipsRemaining[p]]]

(***************************************************************************)
(* Concurrent callers of one breaker.  Every method is                     *)
(*     cb.mu.Lock(); defer cb.mu.Unlock(); <read the maps, write the maps> *)
(* and a goroutine goes idle -> locking -> reading -> writing -> unlocking *)
(* -> idle, the map reads and the map writes being separate steps.         *)
(***************************************************************************)
Goroutines == {"g1", "g2"}

Methods == {"RecordFailure", "IsOpen", "RecordSuccess"}

NoCall == [method |-> "none", prURL |-> "none"]

\* The locals of a goroutine that is not inside a method.
NotLoaded == NewCircuitBreaker(0, 0)

\* What method m does to breaker b: the value returned and the breaker left.
Apply(b, m, prURL) ==
    CASE m = "RecordFailure" -> [ret |-> FALSE, cb |-> RecordFailure(b, prURL)]
      [] m = "RecordSuccess" -> [ret |-> FALSE, cb |-> RecordSuccess(b, prURL)]
      [] m = "IsOpen"        -> IsOpen(b, prURL)

\* A Lock() that never waits.
MuLockFreeForAll(g) == TRUE

\* sync.RWMutex.Lock: returns once no other goroutine holds the lock.
MuLockReady(g) == mu = "free"

Begin(g) ==
    /\ pc[g] = "idle"
    /\ callsLeft[g] > 0
    /\ \E m \in Methods, p \in PRs : call' = [call EXCEPT ![g] = [method |-> m, prURL |-> p]]
    /\ callsLeft' = [callsLeft EXCEPT ![g] = @ - 1]
    /\ pc' = [pc EXCEPT ![g] = "locking"]
    /\ UNCHANGED <<cb, mu, loaded, returned, lin, linReturned>>

Lock(g) ==
    /\ pc[g] = "locking"
    /\ MuLockReady(g)
    /\ mu' = g
    /\ pc' = [pc EXCEPT ![g] = "reading"]
    /\ UNCHANGED <<cb, call, loaded, callsLeft, returned, lin, linReturned>>

ReadMaps(g) ==
    /\ pc[g] = "reading"
    /\ loaded' = [loaded EXCEPT ![g] = cb]
    /\ pc' = [pc EXCEPT ![g] = "writing"]
    /\ UNCHANGED <<cb, mu, call, callsLeft, returned, lin, linReturned>>

\* The writes of the method, computed from what the goroutine read; only the
\* entries of its own PR are written.
WriteMaps(g) ==
    /\ pc[g] = "writing"
    /\ LET p   == call[g].prURL
           out == Apply(loaded[g], call[g].method, p)
           seq == Apply(lin, call[g].method, p)
       IN  /\ cb' = [cb EXCEPT !.failures[p] = out.cb.failures[p],
                               !.skipsRemaining[p] = out.cb.skipsRemaining[p]]
           /\ returned' = [returned EXCEPT ![g] = out.ret]
           /\ lin' = seq.cb
           /\ linReturned' = [linReturned EXCEPT ![g] = seq.ret]
    /\ pc' = [pc EXCEPT ![g] = "unlocking"]
    /\ UNCHANGED <<mu, call, loaded, callsLeft>>

Unlock(g) ==
    /\ pc[g] = "unlocking"
    /\ mu' = "free"
    /\ pc' = [pc EXCEPT ![g] = "idle"]
    /\ call' = [call EXCEPT ![g] = NoCall]
    /\ loaded' = [loaded EXCEPT ![g] = NotLoaded]
    /\ UNCHANGED <<cb, callsLeft, returned, lin, linReturned>>

\* The steps of a call once it has begun.
InCall(g) ==
    /\ Lock(g) \/ ReadMaps(g) \/ WriteMaps(g) \/ Unlock(g)
    /\ UNCHANGED <<evalVars, seg, segStart, retryVars, classifyVars, dedupVars, runVars>>

InitConc ==
    /\ \E ft \in 1..MaxThreshold, sr \in 1..MaxSkipRuns : cb = NewCircuitBreaker(ft, sr)
    /\ lin = cb
    /\ mu = "free"
    /\ pc = [g \in Goroutines |-> "idle"]
    /\ call = [g \in Goroutines |-> NoCall]
    /\ loaded = [g \in Goroutines |-> NotLoaded]
    /\ callsLeft = [g \in Goroutines |-> MaxCalls]
    /\ returned = [g \in Goroutines |-> FALSE]
    /\ linReturned = [g \in Goroutines |-> FALSE]

(***************************************************************************)
(* The pipeline run: main and the functions it calls.  A pull request is   *)
(* known by its URL (an element of PRs); text that the code searches       *)
(* (titles, bodies, error messages, comment bodies) is a set of fragments. *)
(***************************************************************************)
doNotTouchLabel == "do not touch"

phaedrus == "phrazzld"

staleHours == 72

\* time.Now() of a run, in hours on the clock UpdatedAt is read on.
Now == 100

RepoOf(url) == IF url = "pr1" THEN "misty-step/alpha" ELSE "misty-step/beta"

IdOf(url) == IF url = "pr1" THEN "PR_node1" ELSE "PR_node2"

HasPrefix(s, prefix) ==
    \E rest \in {"", "unknown", "failure", "pending", "conflicting", "changes_requested",
                 "required"} : s = prefix \o rest

SearchPR(url, title, updatedAt, isDraft, login, labels) ==
    [URL |-> url, Title |-> title, Body |-> "", UpdatedAt |-> updatedAt,
     IsDraft |-> isDraft, Author |-> login, Repo |-> RepoOf(url), Labels |-> labels]

PrView(url, title, isDraft, labels, mergeable, reviewDecision, rollup) ==
    [ID |-> IdOf(url), URL |-> url, Title |-> title, Body |-> "", IsDraft |-> isDraft,
     Mergeable |-> mergeable, ReviewDecision |-> reviewDecision,
     StatusCheckRollup |-> rollup, Labels |-> labels]

\* The value of view before ghPRView has returned one.
NoView == PrView("", "", FALSE, <<>>, "", "", <<>>)

isDoNotTouch(labelName, title, body, labels) ==
    LET target == ToLower(TrimSpace(labelName))
        needle == "do not touch"
        hay    == {ToLower(title), ToLower(body)}
    IN  \/ /\ target /= ""
           /\ \E i \in DOMAIN labels : ToLower(TrimSpace(labels[i])) = target
        \/ Contains(hay, needle)

\* Categories in which a FAILURE entry that matches no keyword counts as
\* "unknown".
RECURSIVE ciCategoriesUnmatchedCounts(_, _)
ciCategoriesUnmatchedCounts(entries, i) ==
    IF i > Len(entries) THEN {}
    ELSE LET e          == entries[i]
             conclusion == ToUpper(TrimSpace(e.Conclusion))
             nameLower  == {ToLower(TrimSpace(e.Name))}
             has(k)     == Contains(nameLower, k)
             here ==
                 IF conclusion /= "FAILURE" THEN {}
                 ELSE IF has("lint") \/ has("golangci") \/ has("eslint") \/ has("prettier")
                 THEN {"lint"}
                 ELSE IF has("test") \/ has("spec") \/ has("jest") \/ has("pytest")
                 THEN {"test"}
                 ELSE IF has("build") \/ has("compile") \/ has("typecheck") \/ has("tsc")
                 THEN {"build"}
                 ELSE {"unknown"}
         IN  here \cup ciCategoriesUnmatchedCounts(entries, i + 1)

\* The categories classifyCIFailure collects from entries[i..].
RECURSIVE ciCategories(_, _)
ciCategories(entries, i) ==
    IF i > Len(entries) THEN {}
    ELSE LET e          == entries[i]
             conclusion == ToUpper(TrimSpace(e.Conclusion))
             nameLower  == {ToLower(TrimSpace(e.Name))}
             has(k)     == Contains(nameLower, k)
             here ==
                 IF conclusion /= "FAILURE" THEN {}
                 ELSE IF has("lint") \/ has("golangci") \/ has("eslint") \/ has("prettier")
                 THEN {"lint"}
                 ELSE IF has("test") \/ has("spec") \/ has("jest") \/ has("pytest")
                 THEN {"test"}
                 ELSE IF has("build") \/ has("compile") \/ has("typecheck") \/ has("tsc")
                 THEN {"build"}
                 ELSE {}
         IN  here \cup ciCategories(entries, i + 1)

\* A classifyCIFailure that returns the category met first instead of mixed.
classifyCIFailureFirstWins(entries) ==
    LET categories == ciCategories(entries, 1)
        first == CHOOSE i \in DOMAIN entries :
                     /\ ciCategories(<<entries[i]>>, 1) /= {}
                     /\ \A j \in 1..(i - 1) : ciCategories(<<entries[j]>>, 1) = {}
    IN  IF Cardinality(categories) = 0 THEN "unknown"
        ELSE CHOOSE cat \in ciCategories(<<entries[first]>>, 1) : TRUE

classifyCIFailure(entries) ==
    LET categories == ciCategories(entries, 1)
    IN  IF Cardinality(categories) = 0 THEN "unknown"
        ELSE IF Cardinality(categories) > 1 THEN "mixed"
        ELSE CHOOSE cat \in categories : TRUE

\* The check names and conclusions of the rollups classifyCIFailure is given.
CINames == {"golangci-lint", "ESLint", "Unit Tests", "build", "unknown-check"}

CIConclusions == {"FAILURE", "failure", " FAILURE ", "SUCCESS", "SKIPPED", "NEUTRAL", ""}

CIEntries ==
    {Entry("CheckRun", n, "COMPLETED", c, "") : n \in CINames, c \in CIConclusions \ {""}}
    \cup {Entry("CheckRun", n, "IN_PROGRESS", "", "") : n \in CINames}

CIRollups == UNION {[1..n -> CIEntries] : n \in 0..MaxEntries}

NotCategorised == [done |-> FALSE, ciType |-> ""]

InitCI ==
    /\ view \in [Mergeable : {"MERGEABLE"}, ReviewDecision : {"APPROVED"},
                  StatusCheckRollup : CIRollups]
    /\ evalOut = NotCategorised

ClassifyCI ==
    /\ ~evalOut.done
    /\ evalOut' = [done |-> TRUE, ciType |-> classifyCIFailure(view.StatusCheckRollup)]
    /\ UNCHANGED view

conflictMarker == "merge conflict with the base branch"

\* The lines of the comment body, as fragments.
buildCommentBody(pr, reason) ==
    IF reason = "mergeable_conflicting"
    THEN {"<!-- kaylee-pr-pipeline -->", "merge conflict with the base branch"}
    ELSE {"<!-- kaylee-pr-pipeline -->", "not merged automatically",
          "mergeable:", pr.Mergeable,
          "checks:", overallChecksState(pr.StatusCheckRollup),
          "reviewDecision:", pr.ReviewDecision,
          "reason:", reason}
         \cup (IF HasPrefix(reason, "checks_")
                  /\ classifyCIFailure(pr.StatusCheckRollup) = "lint"
               THEN {"Lint-fix subagent dispatched"}
               ELSE {})

\* runCmd's error: "gh <args>: <msg>", the arguments included.
runCmdError(args, msg) == Err(args \cup msg)

\* The predicate main applies to a failed comment post.
IsArchivedError(err) ==
    /\ ~err.isNil
    /\ Contains({ToLower(f) : f \in err.text}, "archived")

normalizeDiscordTarget(raw) ==
    LET s == TrimSpace(raw)
    IN  IF s = "" THEN ""
        ELSE CASE s = "channel:alerts" -> "alerts"
               [] s = "channel:report" -> "report"
               [] s = "<#alerts>"      -> "alerts"
               [] OTHER                -> s

RECURSIVE countAction(_, _, _)
countAction(results, actions, i) ==
    IF i > Len(results) THEN 0
    ELSE (IF results[i].Action \in actions THEN 1 ELSE 0)
         + countAction(results, actions, i + 1)

summarize(results) ==
    [merged    |-> countAction(results, {"merged"}, 1),
     commented |-> countAction(results, {"commented", "review_dispatched",
                                         "lint_dispatched"}, 1),
     skipped   |-> countAction(results, {"skipped"}, 1),
     errs      |-> countAction(results, {"error"}, 1)]

Sent(to, kind) == [to |-> to, kind |-> kind]

\* maybePostDiscord: the error returned and the messages handed to
\* discordSendMessage.  reportErr and alertErr are what the two sends return.
maybePostDiscord(results, dry, reportToRaw, alertsToRaw, postEmpty, postDryRun, token, reportErr, alertErr) ==
    LET reportTo == normalizeDiscordTarget(reportToRaw)
        alertsTo == normalizeDiscordTarget(alertsToRaw)
        errs     == summarize(results).errs
        quiet    == [err |-> NoError, sends |-> <<>>]
    IN  IF reportTo = "" /\ alertsTo = "" THEN quiet
        ELSE IF dry /\ ~postDryRun THEN quiet
        ELSE IF Len(results) = 0 /\ ~postEmpty THEN quiet
        ELSE IF TrimSpace(token) = ""
        THEN [err |-> Err({"DISCORD_BOT_TOKEN missing"}), sends |-> <<>>]
        ELSE LET postErr == IF reportTo /= "" THEN reportErr ELSE NoError
                 report  == IF reportTo /= "" THEN <<Sent(reportTo, "summary")>> ELSE <<>>
                 apart   == alertsTo /= "" /\ alertsTo /= reportTo
             IN  IF ~postErr.isNil
                 THEN [err   |-> postErr,
                       sends |-> IF apart
                                 THEN Append(report, Sent(alertsTo, "report failed"))
                                 ELSE report]
                 ELSE IF errs > 0 /\ apart
                 THEN [err |-> alertErr, sends |-> Append(report, Sent(alertsTo, "errors"))]
                 ELSE [err |-> NoError, sends |-> report]

\* The messages postDiscordAlertIfConfigured hands to discordSendMessage.
postDiscordAlertIfConfigured(alertsToRaw, token) ==
    LET alertsTo == normalizeDiscordTarget(alertsToRaw)
    IN  IF alertsTo = "" THEN <<>>
        ELSE IF TrimSpace(token) = "" THEN <<>>
        ELSE <<Sent(alertsTo, "pipeline error")>>

\* The test of the selection loop of main: TRUE for a PR it keeps.
isSelected(pr) ==
    LET author == TrimSpace(pr.Author)
    IN  /\ ~pr.IsDraft
        /\ ~isDoNotTouch(doNotTouchLabel, pr.Title, pr.Body, pr.Labels)
        /\ author /= ""
        /\ ~(ToLower(author) = ToLower(phaedrus) /\ Now - pr.UpdatedAt < staleHours)

\* The inner loop of sortByUpdatedAtDesc: the element at j moves towards the
\* front while its predecessor was updated before it.
RECURSIVE sinkBack(_, _)
sinkBack(prs, j) ==
    IF j > 1 /\ prs[j - 1].UpdatedAt < prs[j].UpdatedAt
    THEN sinkBack([prs EXCEPT ![j - 1] = prs[j], ![j] = prs[j - 1]], j - 1)
    ELSE prs

RECURSIVE sortFrom(_, _)
sortFrom(prs, i) == IF i > Len(prs) THEN prs ELSE sortFrom(sinkBack(prs, i), i + 1)

sortByUpdatedAtDesc(prs) == sortFrom(prs, 2)

(***************************************************************************)
(* What the outside world hands to a run.                                  *)
(***************************************************************************)
\* stderr of a failed gh call.
TimeoutMsg == {"timeout"}
UnmatchedMsg == {"boom"}
NotFoundMsg == {"Not Found"}
ArchivedMsg == {"repository is archived"}
WasArchivedMsg == {"repo was archived"}

\* The results of the attempts of a retried call: k failures with fail, then
\* last for good.
Attempt3(fail, last, k) == [i \in 1..retryCfg.MaxAttempts |-> IF i <= k THEN fail ELSE last]

\* The per-invocation results of a retried gh call: what it returns for good
\* (a value of vals, or an error of msgs), at once or at the last attempt
\* after timeouts.
Attempts(args, vals, msgs) ==
    {Attempt3(Failed(runCmdError(args, TimeoutMsg)), last, k) :
        last \in {Ok(v) : v \in vals} \cup {Failed(runCmdError(args, m)) : m \in msgs},
        k \in {0, retryCfg.MaxAttempts - 1}}

Tokens == {"", "tok"}

KayleesPR == SearchPR("pr1", "Fix the parser", 90, FALSE, "kaylee-mistystep", <<"bug">>)

StalePR == SearchPR("pr2", "Bump deps", 20, FALSE, "Phrazzld", <<>>)

\* What gh search prs returns: the two PRs in either order, a PR listed
\* twice, and PRs the selection drops (draft, do-not-touch, blank author,
\* a PR of Phaedrus updated less than staleHours ago).
Listings ==
    {<<>>, <<KayleesPR>>, <<StalePR, KayleesPR>>, <<StalePR, StalePR>>,
     <<[KayleesPR EXCEPT !.IsDraft = TRUE], StalePR>>,
     <<[StalePR EXCEPT !.UpdatedAt = 95], [KayleesPR EXCEPT !.Author = " "]>>,
     <<[KayleesPR EXCEPT !.Labels = <<" Do Not Touch ">>],
       [StalePR EXCEPT !.Title = "WIP: DO NOT TOUCH"]>>}

PassingRollup == <<Entry("CheckRun", "ci", "COMPLETED", "SUCCESS", "")>>

LintRollup == <<Entry("CheckRun", "golangci-lint", "COMPLETED", "FAILURE", "")>>

TestRollup == <<Entry("CheckRun", "Unit Tests", "COMPLETED", "FAILURE", "")>>

PendingRollup == <<Entry("CheckRun", "ci", "IN_PROGRESS", "", "")>>

ReadyView(url) == PrView(url, "Fix the parser", FALSE, <<"bug">>, "MERGEABLE", "APPROVED", PassingRollup)

\* The snapshots gh pr view may return for url: many for the first PR, a few
\* for the second.
Views(url) ==
    IF url /= "pr1"
    THEN {ReadyView(url),
          [ReadyView(url) EXCEPT !.ReviewDecision = "CHANGES_REQUESTED"],
          [ReadyView(url) EXCEPT !.Mergeable = "CONFLICTING"]}
    ELSE
    {ReadyView(url),
     [ReadyView(url) EXCEPT !.Mergeable = "mergeable", !.ReviewDecision = ""],
     [ReadyView(url) EXCEPT !.IsDraft = TRUE],
     [ReadyView(url) EXCEPT !.Labels = <<"bug", " Do Not Touch ">>],
     [ReadyView(url) EXCEPT !.Title = "WIP: DO NOT TOUCH"],
     [ReadyView(url) EXCEPT !.ReviewDecision = "CHANGES_REQUESTED"],
     [ReadyView(url) EXCEPT !.ReviewDecision = "REVIEW_REQUIRED"],
     [ReadyView(url) EXCEPT !.StatusCheckRollup = LintRollup],
     [ReadyView(url) EXCEPT !.StatusCheckRollup = TestRollup,
                            !.ReviewDecision = "CHANGES_REQUESTED"],
     [ReadyView(url) EXCEPT !.StatusCheckRollup = PendingRollup],
     [ReadyView(url) EXCEPT !.StatusCheckRollup = <<>>],
     [ReadyView(url) EXCEPT !.Mergeable = "UNKNOWN"],
     [ReadyView(url) EXCEPT !.Mergeable = "CONFLICTING"],
     [ReadyView(url) EXCEPT !.Mergeable = "CONFLICTING", !.StatusCheckRollup = LintRollup,
                            !.ReviewDecision = "CHANGES_REQUESTED"]}

\* fetchArchivedRepos: nil on error, else the set of archived repositories.
ArchivedFetches ==
    {[isNil |-> TRUE, repos |-> {}], [isNil |-> FALSE, repos |-> {"misty-step/alpha"}]}

Flags(dryRun, maxPRs, alertsTo, cbFailureThreshold, cbSkipRuns) ==
    [dryRun |-> dryRun, maxPRs |-> maxPRs, discordAlertsTo |-> alertsTo,
     cbFailureThreshold |-> cbFailureThreshold, cbSkipRuns |-> cbSkipRuns]

\* The report flags of a run, read by maybePostDiscord only.
ReportFlags ==
    [reportTo : {"", "channel:report", "<#alerts>"}, postEmpty : BOOLEAN,
     postDryRun : BOOLEAN]

Outcome(pr) ==
    [URL |-> pr.URL, Repo |-> pr.Repo, Action |-> "", Reason |-> "", ReasonErr |-> NoError,
     MergeCommitOID |-> "", ChecksState |-> "", Mergeable |-> "", ReviewDecision |-> "",
     ReviewComments |-> "", CIFailureType |-> ""]

Acted(o, action, reason) == [o EXCEPT !.Action = action, !.Reason = reason]

Errored(o, reason, err) == [o EXCEPT !.Action = "error", !.Reason = reason, !.ReasonErr = err]

NoIteration ==
    [URL |-> "", gateOpen |-> FALSE, view |-> NoView, calls |-> <<>>, failed |-> NoError]

NotEmitted == [Ok |-> TRUE, Error |-> {}, documents |-> 0, exitCode |-> 0]

\* A fatalJSON that returns with exit status 0.
fatalJSONExitsZero(err) == [Ok |-> FALSE, Error |-> err.text, documents |-> 1, exitCode |-> 0]

\* fatalJSON: one document with ok false and the error, then exit status 1.
fatalJSON(err) == [Ok |-> FALSE, Error |-> err.text, documents |-> 1, exitCode |-> 1]

\* Lines 375-386: the error main reports when the listing failed.
scanFailed(err) ==
    IF IsPermanent(err)
    THEN Err({"scan failed (permanent)"} \cup err.text)
    ELSE Err({"scan failed (after retries)"} \cup err.text)

NoComments == [p \in PRs |-> <<>>]

Untouched == [merged |-> {}, comments |-> NoComments]

\* The monitor of the documented breaker: per PR, the failing runs in a row
\* and the runs the PR is still to be skipped in.
NothingOwed == [p \in PRs |-> [failed |-> 0, owed |-> 0]]

(***************************************************************************)
(* main, one action per step: the start of a run up to the loop, one       *)
(* iteration of the per-PR loop, the end of the run.                       *)
(***************************************************************************)
\* The end of one loop iteration: the outcome is appended, the breaker and
\* GitHub are as the iteration left them.
\* failed is the error the iteration's retried call ended with, if one did.
DoneWith(o, b, calls, open, snapshot, gh, failed) ==
    /\ runResults' = Append(runResults, o)
    /\ cb' = b
    /\ lastIter' = [URL |-> o.URL, gateOpen |-> open, view |-> snapshot, calls |-> calls,
                    failed |-> failed]
    /\ github' = gh

Done(o, b, calls, open, snapshot, gh) == DoneWith(o, b, calls, open, snapshot, gh, NoError)

Succeeded(o, b, calls, snapshot, gh) ==
    Done(o, RecordSuccess(b, o.URL), Append(calls, "RecordSuccess"), FALSE, snapshot, gh)

\* A failure of a retried call that is recorded in the breaker whatever its kind.
GaveAlwaysRecords(o, b, calls, snapshot, what, err) ==
    DoneWith(Errored(o, what \o (IF IsPermanent(err) THEN " (permanent)"
                                 ELSE " (after retries)"), err),
             RecordFailure(b, o.URL), Append(calls, "RecordFailure"), FALSE, snapshot,
             github, err)

\* A failure of a retried call that leaves no outcome behind.
GaveSilently(o, b, calls, snapshot, what, err) ==
    /\ runResults' = runResults
    /\ cb' = b
    /\ lastIter' = [URL |-> o.URL, gateOpen |-> FALSE, view |-> snapshot, calls |-> calls,
                    failed |-> err]
    /\ github' = github

\* A retried call failed: a permanent error is reported as such, any other
\* error after the retries and with a RecordFailure.
Gave(o, b, calls, snapshot, what, err) ==
    IF IsPermanent(err)
    THEN DoneWith(Errored(o, what \o " (permanent)", err), b, calls, FALSE, snapshot,
                  github, err)
    ELSE DoneWith(Errored(o, what \o " (after retries)", err), RecordFailure(b, o.URL),
                  Append(calls, "RecordFailure"), FALSE, snapshot, github, err)

\* A merge that does not look at the dry-run flag.
MergeInDryRun(o, b, calls, v) ==
    \E attempts \in Attempts({v.ID}, {"oid1"}, {TimeoutMsg, UnmatchedMsg, NotFoundMsg}) :
        LET got   == RetryableWithResult(attempts, retryCfg)
            calls1 == Append(calls, "ghMergePR")
        IN  IF ~got.err.isNil
            THEN Gave(o, b, calls1, v, "merge failed", got.err)
            ELSE Succeeded([Acted(o, "merged", "") EXCEPT !.MergeCommitOID = got.val],
                           b, calls1, v, [github EXCEPT !.merged = @ \cup {v.URL}])

\* Lines 492-521: the PR may be merged.
Merge(o, b, calls, v) ==
    IF flags.dryRun
    THEN Succeeded(Acted(o, "skipped", "dry_run_mergeable"), b, calls, v, github)
    ELSE \E attempts \in Attempts({v.ID}, {"oid1"}, {TimeoutMsg, UnmatchedMsg, NotFoundMsg}) :
             LET got   == RetryableWithResult(attempts, retryCfg)
                 calls1 == Append(calls, "ghMergePR")
             IN  IF ~got.err.isNil
                 THEN Gave(o, b, calls1, v, "merge failed", got.err)
                 ELSE Succeeded([Acted(o, "merged", "") EXCEPT !.MergeCommitOID = got.val],
                                b, calls1, v,
                                [github EXCEPT !.merged = @ \cup {v.URL}])

\* Lines 567-569 and 635-637: the comment is posted, with retries; the
\* errors the retried post can end with (NoError when it went through).
PostComment(v, mergeReason) ==
    {Retryable(attempts, retryCfg).err :
        attempts \in Attempts(buildCommentBody(v, mergeReason), {Zero},
                              {TimeoutMsg, UnmatchedMsg, NotFoundMsg, ArchivedMsg,
                               WasArchivedMsg})}

\* A failed post that is handled like any other failed call.
CommentFailedAsError(o, b, calls, v, what, commentErr) ==
    IF IsPermanent(commentErr)
    THEN DoneWith(Errored(o, what \o " (permanent)", commentErr), b, calls, FALSE, v,
                  github, commentErr)
    ELSE DoneWith(Errored(o, what \o " (after retries)", commentErr),
                  RecordFailure(b, o.URL), Append(calls, "RecordFailure"), FALSE, v,
                  github, commentErr)

\* Lines 570-584 and 638-654: the retried post failed with commentErr.
CommentFailed(o, b, calls, v, what, commentErr) ==
    IF IsArchivedError(commentErr)
    THEN DoneWith(Acted(o, "skipped", "repo_archived"), b, calls, FALSE, v, github,
                  commentErr)
    ELSE Gave(o, b, calls, v, what, commentErr)

\* A conflict handling that lists the comments whatever the branch update gave.
ConflictListsComments(o, b, calls, v, mergeReason) ==
    IF flags.dryRun
    THEN Succeeded(Acted(o, "skipped", "dry_run_" \o mergeReason), b, calls, v, github)
    ELSE \E updateErr \in {NoError, runCmdError({}, UnmatchedMsg)},
            commentsErr \in {NoError, runCmdError({}, TimeoutMsg)} :
             LET calls1 == Append(calls, "ghPRUpdateBranch")
                 calls2 == Append(calls1, "ghPRComments")
                 comments == IF commentsErr.isNil THEN github.comments[v.URL] ELSE <<>>
                 alreadyCommented ==
                     /\ commentsErr.isNil
                     /\ Len(comments) > 0
                     /\ \E i \in DOMAIN comments : Contains(comments[i], conflictMarker)
                 posted(o1, calls3) ==
                     Succeeded(Acted(o1, "commented", mergeReason), b, calls3, v,
                               [github EXCEPT !.comments[v.URL] =
                                   Append(@, buildCommentBody(v, mergeReason))])
             IN  IF updateErr.isNil
                 THEN Succeeded(Acted(o, "conflict_resolved", mergeReason), b, calls2, v,
                                github)
                 ELSE IF alreadyCommented
                 THEN Succeeded(Acted(o, "skipped", mergeReason \o "_already_commented"),
                                b, calls2, v, github)
                 ELSE \E commentErr \in PostComment(v, mergeReason) :
                          LET calls3 == Append(calls2, "ghPRComment")
                          IN  IF ~commentErr.isNil
                              THEN CommentFailed(o, b, calls3, v,
                                                 "conflict comment failed", commentErr)
                              ELSE posted(o, calls3)

\* Lines 524-590: the PR conflicts with its base branch.
Conflict(o, b, calls, v, mergeReason) ==
    IF flags.dryRun
    THEN Succeeded(Acted(o, "skipped", "dry_run_" \o mergeReason), b, calls, v, github)
    ELSE \E updateErr \in {NoError, runCmdError({}, UnmatchedMsg)},
            commentsErr \in {NoError, runCmdError({}, TimeoutMsg)} :
             LET calls1 == Append(calls, "ghPRUpdateBranch")
                 calls2 == Append(calls1, "ghPRComments")
                 comments == IF commentsErr.isNil THEN github.comments[v.URL] ELSE <<>>
                 alreadyCommented ==
                     /\ commentsErr.isNil
                     /\ Len(comments) > 0
                     /\ \E i \in DOMAIN comments : Contains(comments[i], conflictMarker)
                 posted(o1, calls3) ==
                     Succeeded(Acted(o1, "commented", mergeReason), b, calls3, v,
                               [github EXCEPT !.comments[v.URL] =
                                   Append(@, buildCommentBody(v, mergeReason))])
             IN  IF updateErr.isNil
                 THEN Succeeded(Acted(o, "conflict_resolved", mergeReason), b, calls1, v,
                                github)
                 ELSE IF alreadyCommented
                 THEN Succeeded(Acted(o, "skipped", mergeReason \o "_already_commented"),
                                b, calls2, v, github)
                 ELSE \E commentErr \in PostComment(v, mergeReason) :
                          LET calls3 == Append(calls2, "ghPRComment")
                          IN  IF ~commentErr.isNil
                              THEN CommentFailed(o, b, calls3, v,
                                                 "conflict comment failed", commentErr)
                              ELSE posted(o, calls3)

\* Lines 592-679: the PR is blocked for another reason.
Blocked(o, b, calls, v, mergeReason) ==
    \E token \in Tokens :
        LET ciType == IF HasPrefix(mergeReason, "checks_")
                      THEN classifyCIFailure(v.StatusCheckRollup) ELSE ""
            o1     == [o EXCEPT !.CIFailureType = ciType]
            alert(cs) == IF flags.discordAlertsTo /= "" /\ TrimSpace(token) /= ""
                         THEN Append(cs, "discordSendMessage") ELSE cs
            calls1 == IF ciType = "lint" THEN alert(calls) ELSE calls
            archived == ~archivedRepos.isNil /\ o.Repo \in archivedRepos.repos
            gh(body) == [github EXCEPT !.comments[v.URL] = Append(@, body)]
            posted(o2, calls2) ==
                LET body == buildCommentBody(v, mergeReason)
                    o3   == Acted(o2, IF o2.CIFailureType = "lint" THEN "lint_dispatched"
                                      ELSE "commented", mergeReason)
                IN  IF mergeReason = "review_changes_requested"
                    THEN \E review \in {[err |-> NoError, comments |-> ""],
                                        [err |-> NoError, comments |-> "please rename"],
                                        [err |-> runCmdError({}, TimeoutMsg),
                                         comments |-> ""]} :
                             LET calls3 == Append(calls2, "ghPRReviewComments")
                                 o4 == [o3 EXCEPT !.Action = "review_dispatched",
                                                  !.ReviewComments = review.comments]
                             IN  Succeeded(o4, b,
                                           IF review.err.isNil /\ review.comments /= ""
                                           THEN alert(calls3) ELSE calls3,
                                           v, gh(body))
                    ELSE Succeeded(o3, b, calls2, v, gh(body))
        IN  IF archived
            THEN Succeeded(Acted(o1, "skipped", "repo_archived"), b, calls1, v, github)
            ELSE IF flags.dryRun
            THEN Succeeded(Acted(o1, "skipped", "dry_run_" \o mergeReason), b, calls1, v,
                           github)
            ELSE \E commentErr \in PostComment(v, mergeReason) :
                     LET calls2 == Append(calls1, "ghPRComment")
                     IN  IF ~commentErr.isNil
                         THEN CommentFailed(o1, b, calls2, v, "comment failed", commentErr)
                         ELSE posted(o1, calls2)

\* Lines 472-521: the snapshot is in; hard stops, then the merge gates.
Decide(o0, b, calls, v) ==
    LET o == [o0 EXCEPT !.ChecksState = overallChecksState(v.StatusCheckRollup),
                        !.Mergeable = TrimSpace(v.Mergeable),
                        !.ReviewDecision = TrimSpace(v.ReviewDecision)]
        allowed     == mergeAllowed(v)
        mergeOK     == allowed[1]
        mergeReason == allowed[2]
    IN  IF v.IsDraft
        THEN Succeeded(Acted(o, "skipped", "draft"), b, calls, v, github)
        ELSE IF isDoNotTouch(doNotTouchLabel, v.Title, v.Body, v.Labels)
        THEN Succeeded(Acted(o, "skipped", "do_not_touch"), b, calls, v, github)
        ELSE IF mergeOK THEN Merge(o, b, calls, v)
        ELSE IF mergeReason = "mergeable_conflicting" THEN Conflict(o, b, calls, v, mergeReason)
        ELSE Blocked(o, b, calls, v, mergeReason)

\* Lines 340-431: a process starts; flags are parsed, the breaker is made,
\* the open PRs are listed, selected and sorted, the archived set is fetched.
\* A failed listing ends the run at once (fatalJSON).
StartRun(maxRuns, listings) ==
    /\ phase \in {"idle", "exited"}
    /\ runNo < maxRuns
    /\ runNo' = runNo + 1
    /\ cb' = NewCircuitBreaker(flags.cbFailureThreshold, flags.cbSkipRuns)
    /\ runResults' = <<>>
    /\ acted' = 0
    /\ lastIter' = NoIteration
    /\ \E attempts \in Attempts({}, listings, {TimeoutMsg, NotFoundMsg}) :
           LET got == RetryableWithResult(attempts, retryCfg)
           IN  IF ~got.err.isNil
               THEN /\ phase' = "exited"
                    /\ emitted' = fatalJSON(scanFailed(got.err))
                    /\ selected' = <<>>
                    /\ archivedRepos' = [isNil |-> TRUE, repos |-> {}]
               ELSE /\ phase' = "loop"
                    /\ emitted' = NotEmitted
                    /\ selected' = sortByUpdatedAtDesc(SelectSeq(got.val, isSelected))
                    /\ archivedRepos' \in ArchivedFetches
    /\ UNCHANGED <<flags, github, owed>>

\* An iteration that does not look at the budget.
ProcessPRNoBudget(views) ==
    /\ phase = "loop"
    /\ acted < Len(selected)
    /\ acted' = acted + 1
    /\ LET pr   == selected[acted + 1]
           o    == Outcome(pr)
           gate == IsOpen(cb, pr.URL)
       IN  IF gate.ret
           THEN Done(Acted(o, "skipped", "circuit_breaker"), gate.cb, <<"IsOpen">>, TRUE,
                     NoView, github)
           ELSE \E attempts \in Attempts({}, views[pr.URL],
                                         {TimeoutMsg, UnmatchedMsg, NotFoundMsg}) :
                    LET got   == RetryableWithResult(attempts, retryCfg)
                        calls == <<"IsOpen", "ghPRView">>
                    IN  IF ~got.err.isNil
                        THEN Gave(o, gate.cb, calls, NoView, "pr view failed", got.err)
                        ELSE Decide(o, gate.cb, calls, got.val)
    /\ UNCHANGED <<flags, phase, runNo, selected, archivedRepos, owed, emitted>>

\* Lines 433-680: one iteration of the loop over selected.
ProcessPR(views) ==
    /\ phase = "loop"
    /\ acted < Len(selected)
    /\ acted < flags.maxPRs
    /\ acted' = acted + 1
    /\ LET pr   == selected[acted + 1]
           o    == Outcome(pr)
           gate == IsOpen(cb, pr.URL)
       IN  IF gate.ret
           THEN Done(Acted(o, "skipped", "circuit_breaker"), gate.cb, <<"IsOpen">>, TRUE,
                     NoView, github)
           ELSE \E attempts \in Attempts({}, views[pr.URL],
                                         {TimeoutMsg, UnmatchedMsg, NotFoundMsg}) :
                    LET got   == RetryableWithResult(attempts, retryCfg)
                        calls == <<"IsOpen", "ghPRView">>
                    IN  IF ~got.err.isNil
                        THEN Gave(o, gate.cb, calls, NoView, "pr view failed", got.err)
                        ELSE Decide(o, gate.cb, calls, got.val)
    /\ UNCHANGED <<flags, phase, runNo, selected, archivedRepos, owed, emitted>>

\* What the documented breaker owes a PR after a run whose first outcome for
\* it is o: a retried failure counts, cbFailureThreshold of them in a row
\* open the circuit for cbSkipRuns runs, each later run uses one of these.
Owes(was, o) ==
    IF was.owed > 0
    THEN [failed |-> IF was.owed = 1 THEN 0 ELSE was.failed, owed |-> was.owed - 1]
    ELSE IF o.Action = "error" /\ ~IsPermanent(o.ReasonErr)
    THEN [failed |-> was.failed + 1,
          owed   |-> IF was.failed + 1 >= flags.cbFailureThreshold
                     THEN flags.cbSkipRuns ELSE 0]
    ELSE [failed |-> 0, owed |-> 0]

\* The first outcome of the run for PR p, if there is one.
Outcomes(p) == {i \in DOMAIN runResults : runResults[i].URL = p}

FirstOutcome(p) == runResults[CHOOSE i \in Outcomes(p) : \A j \in Outcomes(p) : i <= j]

\* A document that is not ok as soon as a PR of the run ended in an error.
DocumentNotOkOnPRError(post) ==
    LET ok == post.err.isNil /\ \A i \in DOMAIN runResults : runResults[i].Action /= "error"
    IN  [Ok |-> ok, Error |-> post.err.text, documents |-> 1,
         exitCode |-> IF ok THEN 0 ELSE 1]

\* What main writes and how it exits once maybePostDiscord has returned post.
Document(post) ==
    [Ok        |-> post.err.isNil,
     Error     |-> post.err.text,
     documents |-> 1,
     exitCode  |-> IF post.err.isNil THEN 0 ELSE 1]

\* What maybePostDiscord can return at the end of the run: its error and the
\* messages it sent, for each setting of the report flags, the token and the
\* results of the sends.
Posts(reports) ==
    {maybePostDiscord(runResults, flags.dryRun, rf.reportTo, flags.discordAlertsTo,
                      rf.postEmpty, rf.postDryRun, token, reportErr, alertErr) :
        rf \in reports, token \in Tokens,
        reportErr \in {NoError, Err({"discord send failed (500)"})},
        alertErr \in {NoError, Err({"discord send failed (500)"})}}

\* Lines 682-690: the loop is over; the summary is posted if configured, the
\* result document is written and the process exits.
FinishRun(reports) ==
    /\ phase = "loop"
    /\ acted >= Len(selected) \/ acted >= flags.maxPRs
    /\ phase' = "exited"
    /\ emitted' \in {Document(post) : post \in Posts(reports)}
    /\ owed' = [p \in PRs |-> IF Outcomes(p) = {} THEN owed[p]
                                             ELSE Owes(owed[p], FirstOutcome(p))]
    /\ UNCHANGED <<flags, runNo, selected, archivedRepos, acted, runResults, lastIter, github, cb>>

InitRun(flagSets) ==
    /\ flags \in flagSets
    /\ phase = "idle"
    /\ runNo = 0
    /\ selected = <<>>
    /\ archivedRepos = [isNil |-> TRUE, repos |-> {}]
    /\ acted = 0
    /\ runResults = <<>>
    /\ lastIter = NoIteration
    /\ github = Untouched
    /\ owed = NothingOwed
    /\ emitted = NotEmitted

\* The flags of the process.  The breaker flags default to 3 and 5; the
\* model takes them from the bounds of the breaker.
RunFlags ==
    {Flags(d, m, a, t, MaxSkipRuns) :
        d \in BOOLEAN, m \in 0..MaxPRsFlag, a \in {"", "channel:alerts"},
        t \in 1..MaxThreshold}

\* The flags of the unattended job that is run again and again.
RerunFlags == {Flags(FALSE, 1, "", t, s) : t \in 1..MaxThreshold, s \in 1..MaxSkipRuns}

RerunListings == {<<KayleesPR>>}

RerunViews(url) ==
    {ReadyView(url),
     [ReadyView(url) EXCEPT !.StatusCheckRollup = LintRollup],
     [ReadyView(url) EXCEPT !.Mergeable = "CONFLICTING"]}

RerunReports == {[reportTo |-> r, postEmpty |-> FALSE, postDryRun |-> FALSE] :
                    r \in {"", "channel:report"}}

IdleRun == InitRun({Flags(FALSE, 0, "", 0, 0)})

(***************************************************************************)
(* The notification dedup gate: hashResults, loadState, saveState and      *)
(* shouldPostToDiscord.  The state file holds the JSON object              *)
(* {hash, lastPostedAt}; lastPostedAt is an RFC 3339 timestamp, the time   *)
(* of the model being counted in hours.                                    *)
(***************************************************************************)
dedupWindowHours == 2

FormatTime(t) == "2026-01-01T" \o ToString(t) \o ":00:00Z"

ParseTime(stamp) == CHOOSE t \in 0..(MaxClock + 1) : FormatTime(t) = stamp

\* The outcomes hashed in the model: each differs from the second one in
\* one field (action and reason, URL and repository, reason, checks state).
OutcomeSamples ==
    <<Acted(Outcome(KayleesPR), "merged", ""),
      Acted(Outcome(KayleesPR), "skipped", "draft"),
      Acted(Outcome(StalePR), "skipped", "draft"),
      Acted(Outcome(KayleesPR), "skipped", "do_not_touch"),
      [Acted(Outcome(KayleesPR), "skipped", "draft") EXCEPT !.ChecksState = "PENDING"]>>

\* The canonical order of outcomes and the text an outcome adds to the digest.
OutcomeRank(o) == CHOOSE i \in DOMAIN OutcomeSamples : OutcomeSamples[i] = o

OutcomeText(o) == "o" \o ToString(OutcomeRank(o)) \o ";"

\* results[1..j] with results[j] moved down to its place.
RECURSIVE sinkOutcome(_, _)
sinkOutcome(results, j) ==
    IF j > 1 /\ OutcomeRank(results[j]) < OutcomeRank(results[j - 1])
    THEN sinkOutcome([results EXCEPT ![j] = results[j - 1], ![j - 1] = results[j]], j - 1)
    ELSE results

RECURSIVE canonicalFrom(_, _)
canonicalFrom(results, i) ==
    IF i > Len(results) THEN results ELSE canonicalFrom(sinkOutcome(results, i), i + 1)

RECURSIVE digestFrom(_, _)
digestFrom(results, i) ==
    IF i > Len(results) THEN "" ELSE OutcomeText(results[i]) \o digestFrom(results, i + 1)

\* A hash that digests the outcomes in the order given.
hashResultsInOrder(results) ==
    IF Len(results) = 0 THEN "" ELSE "sha256:" \o digestFrom(results, 1)

\* hashResults: the empty string for no outcomes, else the digest of the
\* outcomes put in canonical order.
hashResults(results) ==
    IF Len(results) = 0 THEN ""
    ELSE "sha256:" \o digestFrom(canonicalFrom(results, 2), 1)

\* The state file.
MissingFile == [kind |-> "missing", hash |-> "", lastPostedAt |-> ""]

CorruptFile == [kind |-> "corrupt", hash |-> "", lastPostedAt |-> ""]

RunState(hash, lastPostedAt) == [Hash |-> hash, LastPostedAt |-> lastPostedAt]

ZeroState == RunState("", "")

\* A loadState that loses the timestamp.
loadStateWithoutTime(file) ==
    IF file.kind = "json" THEN RunState(file.hash, "") ELSE ZeroState

\* loadState: the zero value when the file is missing or not valid JSON.
loadState(file) ==
    IF file.kind = "json" THEN RunState(file.hash, file.lastPostedAt) ELSE ZeroState

\* saveState writes the hash and the current time.
saveState(hash, now) == [kind |-> "json", hash |-> hash, lastPostedAt |-> FormatTime(now)]

\* A gate that still suppresses when the window has just elapsed and that
\* has no rule for the empty hash.
shouldPostToDiscordStrict(file, currentHash, now) ==
    LET state == loadState(file)
    IN  IF state = ZeroState THEN [should |-> TRUE, reason |-> ""]
        ELSE IF currentHash /= state.Hash THEN [should |-> TRUE, reason |-> ""]
        ELSE IF now - ParseTime(state.LastPostedAt) <= dedupWindowHours
        THEN [should |-> FALSE, reason |-> "same results as last post"]
        ELSE [should |-> TRUE, reason |-> ""]

\* shouldPostToDiscord: the rules of the gate, in order.
shouldPostToDiscord(file, currentHash, now) ==
    LET state == loadState(file)
    IN  IF state = ZeroState THEN [should |-> TRUE, reason |-> ""]
        ELSE IF currentHash = "" THEN [should |-> TRUE, reason |-> ""]
        ELSE IF currentHash /= state.Hash THEN [should |-> TRUE, reason |-> ""]
        ELSE IF now - ParseTime(state.LastPostedAt) < dedupWindowHours
        THEN [should |-> FALSE, reason |-> "same results as last post"]
        ELSE [should |-> TRUE, reason |-> ""]

\* The outcome sequences of at most n outcomes.
RECURSIVE OutcomeSeqs(_)
OutcomeSeqs(n) ==
    IF n = 0 THEN {<<>>}
    ELSE LET shorter == OutcomeSeqs(n - 1)
         IN  shorter \cup {Append(r, OutcomeSamples[i]) :
                              r \in shorter, i \in DOMAIN OutcomeSamples}

\* The hashes handed to the gate and to saveState.
GateHashes ==
    {hashResults(<<>>), hashResults(<<OutcomeSamples[1]>>),
     hashResults(<<OutcomeSamples[2], OutcomeSamples[3]>>)}

NoDecision == [made |-> FALSE, hash |-> "", now |-> 0, should |-> FALSE, reason |-> ""]

StateNotLoaded == [made |-> FALSE, from |-> MissingFile, state |-> ZeroState]

NotHashed == [made |-> FALSE, a |-> <<>>, b |-> <<>>, hashA |-> "", hashB |-> ""]

\* What a run of the job sent to the report channel, and the channel's
\* record of two runs in a row: gap is the time in hours between their ends.
NoReport == [made |-> FALSE, results |-> <<>>, summary |-> FALSE]

Report(results, post) ==
    [made    |-> TRUE,
     results |-> results,
     summary |-> \E i \in DOMAIN post.sends : post.sends[i].kind = "summary"]

NothingReported == [gap |-> 0, prior |-> NoReport, last |-> NoReport]

(***************************************************************************)
(* The texts handed to discordSendMessage.  A text is modelled by its      *)
(* length and by whether it ends with the truncation marker.               *)
(***************************************************************************)
Text(n) == [len |-> n, marker |-> FALSE]

\* Lines 811-817 and 838-842: a rendered message of more than 1900
\* characters is cut to 1890 and given the marker.
truncate(msg) ==
    IF msg.len <= 1900 THEN msg
    ELSE [len |-> 1890 + Len("\n(truncated)"), marker |-> TRUE]

\* renderDiscordSummary and renderDiscordAlert, from the joined lines on.
renderDiscordSummary(joined) == truncate(joined)

renderDiscordAlert(joined) == truncate(joined)

\* Line 668: the review-comments alert; its first characters, a wrench and
\* " PR ", are 8 bytes.
reviewAlert(url, comments) ==
    Text(8 + Len(url) + Len(" has changes requested. Review comments:\n") + comments.len
           + Len("\nAction needed: address review feedback."))

\* Line 598: the lint alert; its first characters, a broom and
\* " Lint failure on PR ", are 24 bytes.  repo is owner/name#number.
lintAlert(url, repo) ==
    Text(24 + Len(url) + Len(" (") + repo.len + Len("). Dispatch lint-fix agent."))

\* Lines 375-386 and 760: the alert for a failed listing.
scanAlert(permanent, err) ==
    Text(Len("Kaylee PR pipeline error: ")
           + (IF permanent THEN Len("scan failed (permanent): ")
                           ELSE Len("scan failed (after retries): "))
           + err.len)

\* Line 735: the alert for a summary that could not be posted.
reportFailedAlert(postErr) ==
    Text(Len("Kaylee PR pipeline: failed to post report: ") + postErr.len)

NoteKinds == {"summary", "errors", "scan failed", "lint", "review", "report failed"}

\* The lengths of the variable part of a notification: nothing, lengths
\* around the 1900 characters from which the renderers cut, and a long one
\* (discordSendMessage itself reads up to 4096 bytes of an error body).
NoteLengths == {0, 4096} \cup ((1900 - MaxSlack)..(1900 + MaxSlack))

\* The content handed to discordSendMessage for a notification.
Content(kind, n) ==
    CASE kind = "summary" -> renderDiscordSummary(Text(n))
      [] kind = "errors" -> renderDiscordAlert(Text(n))
      [] kind = "scan failed" -> scanAlert(n % 2 = 0, Text(n))
      [] kind = "lint" -> lintAlert("pr1", Text(n))
      [] kind = "review" -> reviewAlert("pr1", Text(n))
      [] kind = "report failed" -> reportFailedAlert(Text(n))

\* The length of the same content before any cut.
RawLength(kind, n) == IF kind \in {"summary", "errors"} THEN n ELSE Content(kind, n).len

NoNote == [kind |-> "none", n |-> 0]

NothingSent == [sent |-> FALSE, raw |-> 0, text |-> Text(0)]

InitNote ==
    /\ noteIn \in {[kind |-> k, n |-> n] : k \in NoteKinds, n \in NoteLengths}
    /\ noteOut = NothingSent
    /\ dedupFile = MissingFile
    /\ dedupNow = 0
    /\ dedupGate = NoDecision
    /\ dedupLoaded = StateNotLoaded
    /\ dedupHashes = NotHashed
    /\ reported = NothingReported

\* discordSendMessage posts the content it is given as it is (lines 855-858).
discordSendMessage ==
    /\ ~noteOut.sent
    /\ noteOut' = [sent |-> TRUE, raw |-> RawLength(noteIn.kind, noteIn.n),
                   text |-> Content(noteIn.kind, noteIn.n)]
    /\ UNCHANGED <<dedupFile, dedupNow, dedupGate, dedupHashes, dedupLoaded, reported, noteIn>>

InitDedup ==
    /\ dedupFile = MissingFile
    /\ dedupNow = 0
    /\ dedupGate = NoDecision
    /\ dedupLoaded = StateNotLoaded
    /\ reported = NothingReported
    /\ noteIn = NoNote
    /\ noteOut = NothingSent
    /\ dedupHashes = NotHashed

\* Time passes.
Tick ==
    /\ dedupNow < MaxClock
    /\ dedupNow' = dedupNow + 1
    /\ UNCHANGED <<dedupFile, dedupGate, dedupHashes, dedupLoaded, reported, noteIn, noteOut>>

\* The file is removed or overwritten with something that is not JSON.
LoseFile ==
    /\ dedupFile' \in {MissingFile, CorruptFile}
    /\ dedupFile' /= dedupFile
    /\ UNCHANGED <<dedupNow, dedupGate, dedupHashes, dedupLoaded, reported, noteIn, noteOut>>

CallSaveState ==
    /\ \E hash \in GateHashes : dedupFile' = saveState(hash, dedupNow)
    /\ UNCHANGED <<dedupNow, dedupGate, dedupHashes, dedupLoaded, reported, noteIn, noteOut>>

CallLoadState ==
    /\ dedupLoaded' = [made |-> TRUE, from |-> dedupFile, state |-> loadState(dedupFile)]
    /\ dedupGate' = NoDecision
    /\ UNCHANGED <<dedupFile, dedupNow, dedupHashes, reported, noteIn, noteOut>>

CallShouldPost ==
    /\ \E hash \in GateHashes :
           LET got == shouldPostToDiscord(dedupFile, hash, dedupNow)
           IN  dedupGate' = [made |-> TRUE, hash |-> hash, now |-> dedupNow,
                             should |-> got.should, reason |-> got.reason]
    /\ dedupLoaded' = [made |-> TRUE, from |-> dedupFile, state |-> loadState(dedupFile)]
    /\ UNCHANGED <<dedupFile, dedupNow, dedupHashes, reported, noteIn, noteOut>>

\* Two outcome sequences are drawn and hashed.
InitHash ==
    /\ dedupHashes \in {[made |-> FALSE, a |-> a, b |-> b, hashA |-> "", hashB |-> ""] :
                           a \in OutcomeSeqs(MaxOutcomes), b \in OutcomeSeqs(MaxOutcomes)}
    /\ dedupFile = MissingFile
    /\ dedupNow = 0
    /\ dedupGate = NoDecision
    /\ dedupLoaded = StateNotLoaded
    /\ reported = NothingReported
    /\ noteIn = NoNote
    /\ noteOut = NothingSent

CallHashResults ==
    /\ ~dedupHashes.made
    /\ dedupHashes' = [dedupHashes EXCEPT !.made = TRUE,
                                           !.hashA = hashResults(dedupHashes.a),
                                           !.hashB = hashResults(dedupHashes.b)]
    /\ UNCHANGED <<dedupFile, dedupNow, dedupGate, dedupLoaded, reported, noteIn, noteOut>>

(***************************************************************************)
(* Values of the variables a specification does not use.                   *)
(***************************************************************************)
IdleConc ==
    /\ mu = "free"
    /\ pc = [g \in Goroutines |-> "idle"]
    /\ call = [g \in Goroutines |-> NoCall]
    /\ loaded = [g \in Goroutines |-> NotLoaded]
    /\ callsLeft = [g \in Goroutines |-> 0]
    /\ returned = [g \in Goroutines |-> FALSE]
    /\ lin = NewCircuitBreaker(0, 0)
    /\ linReturned = [g \in Goroutines |-> FALSE]

IdleRetry ==
    /\ retryIn = [results |-> <<>>, cfg |-> retryCfg]
    /\ retryOut = NotRetried

IdleDedup == InitDedup

IdleClassify ==
    /\ errIn = NoError
    /\ errKind = NotClassified

NoHistory ==
    /\ seg = [p \in PRs |-> <<>>]
    /\ segStart = [p \in PRs |-> Fresh]

IdleEval ==
    /\ view = [Mergeable |-> "", ReviewDecision |-> "", StatusCheckRollup |-> <<>>]
    /\ evalOut = NotEvaluated

IdleBreaker ==
    /\ cb = NewCircuitBreaker(0, 0)
    /\ seg = [p \in PRs |-> <<>>]
    /\ segStart = [p \in PRs |-> Fresh]

(***************************************************************************)
(* Specifications.                                                         *)
(***************************************************************************)
NextEval == Evaluate /\ UNCHANGED <<breakerVars, concVars, retryVars, classifyVars, dedupVars, runVars>>

StartEval == InitEval /\ IdleBreaker /\ IdleConc /\ IdleRetry /\ IdleRun /\ IdleClassify /\ IdleDedup

SpecEval == StartEval /\ [][NextEval]_vars

NextBreaker ==
    \E p \in PRs :
        \/ CallRecordFailure(p) /\ UNCHANGED <<evalVars, concVars, retryVars, classifyVars, dedupVars, runVars>>
        \/ CallIsOpen(p) /\ UNCHANGED <<evalVars, concVars, retryVars, classifyVars, dedupVars, runVars>>
        \/ CallRecordSuccess(p) /\ UNCHANGED <<evalVars, concVars, retryVars, classifyVars, dedupVars, runVars>>

StartBreaker == InitBreaker /\ IdleEval /\ IdleConc /\ IdleRetry /\ IdleRun /\ IdleClassify /\ IdleDedup

SpecBreaker == StartBreaker /\ [][NextBreaker]_vars

NextConc ==
    \E g \in Goroutines :
        \/ Begin(g) /\ UNCHANGED <<evalVars, seg, segStart, retryVars, classifyVars, dedupVars, runVars>>
        \/ Lock(g) /\ UNCHANGED <<evalVars, seg, segStart, retryVars, classifyVars, dedupVars, runVars>>
        \/ ReadMaps(g) /\ UNCHANGED <<evalVars, seg, segStart, retryVars, classifyVars, dedupVars, runVars>>
        \/ WriteMaps(g) /\ UNCHANGED <<evalVars, seg, segStart, retryVars, classifyVars, dedupVars, runVars>>
        \/ Unlock(g) /\ UNCHANGED <<evalVars, seg, segStart, retryVars, classifyVars, dedupVars, runVars>>

StartConc == InitConc /\ IdleEval /\ NoHistory /\ IdleRetry /\ IdleRun /\ IdleClassify /\ IdleDedup

NextRetry == Retry /\ UNCHANGED <<evalVars, breakerVars, concVars, classifyVars, dedupVars, runVars>>

StartRetry == InitRetry /\ IdleEval /\ IdleBreaker /\ IdleConc /\ IdleRun /\ IdleClassify /\ IdleDedup

SpecRetry == StartRetry /\ [][NextRetry]_vars

NextClassify == Classify /\ UNCHANGED <<evalVars, breakerVars, concVars, retryVars, dedupVars, runVars>>

StartClassify == InitClassify /\ IdleEval /\ IdleBreaker /\ IdleConc /\ IdleRetry /\ IdleDedup /\ IdleRun

SpecClassify == StartClassify /\ [][NextClassify]_vars

NextDedup ==
    \/ Tick /\ UNCHANGED <<evalVars, breakerVars, concVars, retryVars, classifyVars, runVars>>
    \/ LoseFile /\ UNCHANGED <<evalVars, breakerVars, concVars, retryVars, classifyVars, runVars>>
    \/ CallSaveState /\ UNCHANGED <<evalVars, breakerVars, concVars, retryVars, classifyVars, runVars>>
    \/ CallLoadState /\ UNCHANGED <<evalVars, breakerVars, concVars, retryVars, classifyVars, runVars>>
    \/ CallShouldPost /\ UNCHANGED <<evalVars, breakerVars, concVars, retryVars, classifyVars, runVars>>

StartDedup == InitDedup /\ IdleEval /\ IdleBreaker /\ IdleConc /\ IdleRetry /\ IdleClassify /\ IdleRun

SpecDedup == StartDedup /\ [][NextDedup]_vars

NextNote ==
    discordSendMessage /\ UNCHANGED <<evalVars, breakerVars, concVars, retryVars, classifyVars, runVars>>

StartNote == InitNote /\ IdleEval /\ IdleBreaker /\ IdleConc /\ IdleRetry /\ IdleClassify /\ IdleRun

SpecNote == StartNote /\ [][NextNote]_vars

NextCI == ClassifyCI /\ UNCHANGED <<breakerVars, concVars, retryVars, classifyVars, dedupVars, runVars>>

StartCI == InitCI /\ IdleBreaker /\ IdleConc /\ IdleRetry /\ IdleRun /\ IdleClassify /\ IdleDedup

SpecCI == StartCI /\ [][NextCI]_vars

NextHash ==
    CallHashResults /\ UNCHANGED <<evalVars, breakerVars, concVars, retryVars, classifyVars, runVars>>

StartHash == InitHash /\ IdleEval /\ IdleBreaker /\ IdleConc /\ IdleRetry /\ IdleClassify /\ IdleRun

SpecHash == StartHash /\ [][NextHash]_vars

\* One run of the pipeline, from the start of the process to its exit.
NextRun ==
    \/ StartRun(1, Listings) /\ UNCHANGED <<evalVars, seg, segStart, concVars, retryVars, classifyVars, dedupVars>>
    \/ ProcessPR([url \in PRs |-> Views(url)]) /\ UNCHANGED <<evalVars, seg, segStart, concVars, retryVars, classifyVars, dedupVars>>
    \/ FinishRun(ReportFlags) /\ UNCHANGED <<evalVars, seg, segStart, concVars, retryVars, classifyVars, dedupVars>>

StartPipeline == InitRun(RunFlags) /\ IdleEval /\ IdleBreaker /\ IdleConc /\ IdleRetry /\ IdleClassify /\ IdleDedup

Spec == StartPipeline /\ [][NextRun]_vars

\* The same job run up to MaxRuns times, each run a new process.
NextRuns ==
    \/ StartRun(MaxRuns, RerunListings)
           /\ UNCHANGED <<evalVars, seg, segStart, concVars, retryVars, classifyVars, dedupVars>>
    \/ ProcessPR([url \in PRs |-> RerunViews(url)]) /\ UNCHANGED <<evalVars, seg, segStart, concVars, retryVars, classifyVars, dedupVars>>
    \/ FinishRun(RerunReports) /\ UNCHANGED <<evalVars, seg, segStart, concVars, retryVars, classifyVars, dedupVars>>

\* The job run from cron with a report channel: the channel remembers what
\* the previous run sent.  Runs end RunGaps hours apart.
RunGaps == {1, 2}

CronFlags == {Flags(FALSE, 1, "", MaxThreshold, MaxSkipRuns)}

ReportViews(url) == {ReadyView(url), [ReadyView(url) EXCEPT !.StatusCheckRollup = LintRollup]}

NextReports ==
    \/ /\ StartRun(MaxRuns, RerunListings)
       /\ \E gap \in RunGaps :
              reported' = [gap |-> gap, prior |-> reported.last, last |-> NoReport]
       /\ UNCHANGED <<evalVars, seg, segStart, concVars, retryVars, classifyVars, dedupFile, dedupNow, dedupGate, dedupHashes, dedupLoaded, noteIn, noteOut>>
    \/ ProcessPR([url \in PRs |-> ReportViews(url)]) /\ UNCHANGED <<evalVars, seg, segStart, concVars, retryVars, classifyVars, dedupVars>>
    \/ /\ FinishRun(RerunReports)
       /\ \E post \in Posts(RerunReports) :
              /\ emitted' = Document(post)
              /\ reported' = [reported EXCEPT !.last = Report(runResults, post)]
       /\ UNCHANGED <<evalVars, seg, segStart, concVars, retryVars, classifyVars, dedupFile, dedupNow, dedupGate, dedupHashes, dedupLoaded, noteIn, noteOut>>

StartReports == InitRun(CronFlags) /\ IdleEval /\ IdleBreaker /\ IdleConc /\ IdleRetry /\ IdleClassify /\ IdleDedup

SpecReports == StartReports /\ [][NextReports]_vars

StartPipelineRuns == InitRun(RerunFlags) /\ IdleEval /\ IdleBreaker /\ IdleConc /\ IdleRetry /\ IdleClassify /\ IdleDedup

SpecRuns == StartPipelineRuns /\ [][NextRuns]_vars

\* A goroutine inside a call keeps running, and a goroutine waiting in Lock()
\* gets the mutex once it is free (sync.Mutex hands a starving waiter the lock).
SpecConc ==
    StartConc /\ [][NextConc]_vars /\ \A g \in Goroutines : WF_vars(InCall(g))

(***************************************************************************)
(* Properties of the evaluator.                                            *)
(***************************************************************************)
Canon(s) == ToUpper(TrimSpace(s))

SaysMergeable(raw) == raw \in {"MERGEABLE", " MERGEABLE ", "mergeable"}
SaysChangesRequested(raw) == raw \in {"CHANGES_REQUESTED", "changes_requested"}
SaysReviewRequired(raw) == raw \in {"REVIEW_REQUIRED", " REVIEW_REQUIRED "}

IsRunBased(e) == TrimSpace(e.Typename) = "CheckRun"
IsStatusBased(e) == TrimSpace(e.Typename) = "StatusContext"

\* No completed/terminal signal: a check run that is not completed or has no
\* conclusion, a status context whose state is none of SUCCESS, FAILURE, ERROR.
LacksTerminalSignal(e) ==
    \/ IsRunBased(e) /\ (Canon(e.Status) \notin {"", "COMPLETED"} \/ Canon(e.Conclusion) = "")
    \/ IsStatusBased(e) /\ Canon(e.State) \notin {"SUCCESS", "FAILURE", "ERROR"}

IsFailing(e) ==
    \/ /\ IsRunBased(e)
       /\ ~LacksTerminalSignal(e)
       /\ Canon(e.Conclusion) \notin {"SUCCESS", "NEUTRAL", "SKIPPED"}
    \/ IsStatusBased(e) /\ Canon(e.State) \in {"FAILURE", "ERROR"}

\* C2: mergeAllowed allows exactly the snapshots that are MERGEABLE, whose
\* aggregate checks state is SUCCESS and whose review decision is neither
\* CHANGES_REQUESTED nor REVIEW_REQUIRED; the reason is empty exactly then.
C2_AllowedExactlyWhenAllGatesPass ==
    evalOut.done =>
        /\ evalOut.allowed <=>
              /\ SaysMergeable(view.Mergeable)
              /\ evalOut.checks = "SUCCESS"
              /\ ~SaysChangesRequested(view.ReviewDecision)
              /\ ~SaysReviewRequired(view.ReviewDecision)
        /\ (evalOut.reason = "") <=> evalOut.allowed

C2_Witness ==
    /\ evalOut.done
    /\ evalOut.allowed
    /\ view.ReviewDecision = ""
    /\ Len(view.StatusCheckRollup) >= 2

\* C3: the reason is that of the first failing gate, in the order mergeable,
\* checks non-empty, checks SUCCESS, review decision.
C3_FirstFailingGateWins ==
    evalOut.done =>
        /\ ~SaysMergeable(view.Mergeable) =>
              /\ ~evalOut.allowed
              /\ evalOut.reason =
                    CASE view.Mergeable = "CONFLICTING" -> "mergeable_conflicting"
                      [] view.Mergeable = "UNKNOWN"     -> "mergeable_unknown"
                      [] view.Mergeable = ""            -> "mergeable_"
        /\ SaysMergeable(view.Mergeable) /\ evalOut.checks /= "SUCCESS" =>
              /\ ~evalOut.allowed
              /\ evalOut.reason =
                    CASE evalOut.checks = ""        -> "checks_unknown"
                      [] evalOut.checks = "PENDING" -> "checks_pending"
                      [] evalOut.checks = "FAILURE" -> "checks_failure"
        /\ SaysMergeable(view.Mergeable) /\ evalOut.checks = "SUCCESS" =>
              evalOut.reason =
                  IF SaysChangesRequested(view.ReviewDecision) THEN "review_changes_requested"
                  ELSE IF SaysReviewRequired(view.ReviewDecision) THEN "review_required"
                  ELSE ""

C3_Witness ==
    /\ evalOut.done
    /\ view.Mergeable = "CONFLICTING"
    /\ evalOut.checks = "FAILURE"
    /\ view.ReviewDecision = "CHANGES_REQUESTED"
    /\ evalOut.reason = "mergeable_conflicting"

Count(s, op, i, j) == Cardinality({k \in i..j : k \in DOMAIN s /\ s[k].op = op})

\* The position of the n-th call of op after position from (0 when n = 0 and
\* from = 0); only used when that call is on record.
NthAfter(s, op, n, from) ==
    IF n = 0 THEN from
    ELSE CHOOSE k \in DOMAIN s :
            /\ k > from
            /\ s[k].op = op
            /\ Count(s, op, from + 1, k) = n

\* C5: counting from a closed, reset circuit: IsOpen returns false before the
\* failureThreshold-th RecordFailure, true for the skipRuns IsOpen calls that
\* follow it, and false at the next one (fewer than failureThreshold further
\* failures having come since the window's last skip).
C5_OpensAtThresholdForSkipRuns ==
    \A p \in PRs :
        LET s == seg[p]
            N == cb.failureThreshold
            M == cb.skipRuns
        IN  \A i \in DOMAIN s :
                s[i].op = "IsOpen" =>
                    IF Count(s, "RecordFailure", 1, i - 1) < N
                    THEN s[i].ret = FALSE
                    ELSE LET k  == NthAfter(s, "RecordFailure", N, 0)
                             ia == Count(s, "IsOpen", k + 1, i)
                         IN  /\ ia <= M => s[i].ret = TRUE
                             /\ ia = M + 1 =>
                                   LET m == NthAfter(s, "IsOpen", M, k)
                                   IN  Count(s, "RecordFailure", m + 1, i) < N
                                           => s[i].ret = FALSE

C5_Witness ==
    \E p \in PRs :
        /\ cb.failureThreshold >= 2
        /\ cb.skipRuns >= 2
        /\ \E i \in DOMAIN seg[p] :
              /\ seg[p][i].op = "IsOpen"
              /\ Count(seg[p], "RecordFailure", 1, i - 1) = cb.failureThreshold
              /\ Count(seg[p], "IsOpen", 1, i) = cb.skipRuns + 1
              /\ seg[p][i - 1].ret = TRUE
              /\ seg[p][i].ret = FALSE

\* C6: RecordSuccess leaves both counts of its PR at zero, the IsOpen calls
\* that follow return false until failureThreshold new failures have come,
\* and the circuit does not open on fewer.
C6_SuccessClosesAndResets ==
    \A p \in PRs :
        segStart[p].how = "success" =>
            /\ segStart[p].failuresAfter = 0
            /\ segStart[p].skipsAfter = 0
            /\ \A i \in DOMAIN seg[p] :
                  Count(seg[p], "RecordFailure", 1, i) < cb.failureThreshold =>
                      /\ seg[p][i].op = "IsOpen" => seg[p][i].ret = FALSE
                      /\ seg[p][i].skipsAfter = 0

C6_Witness ==
    \E p \in PRs :
        /\ segStart[p].how = "success"
        /\ segStart[p].wasOpen
        /\ seg[p] /= <<>>
        /\ seg[p][1].op = "IsOpen"
        /\ seg[p][1].ret = FALSE

\* An opening: a RecordFailure that takes the skip budget from zero.
IsOpening(s, k) ==
    s[k].op = "RecordFailure" /\ s[k].skipsBefore = 0 /\ s[k].skipsAfter > 0

\* C7: a RecordFailure on an open circuit leaves skipsRemaining as it is, and
\* one opening is followed by at most skipRuns IsOpen calls returning true.
C7_NoRearmWhileOpen ==
    \A p \in PRs :
        LET s == seg[p]
        IN  /\ \A i \in DOMAIN s :
                  s[i].op = "RecordFailure" /\ s[i].skipsBefore > 0 =>
                      s[i].skipsAfter = s[i].skipsBefore
            /\ \A k \in DOMAIN s, j \in DOMAIN s :
                  /\ k <= j
                  /\ IsOpening(s, k)
                  /\ \A x \in (k + 1)..j : ~IsOpening(s, x)
                  => Cardinality({x \in (k + 1)..j : s[x].op = "IsOpen" /\ s[x].ret})
                         <= cb.skipRuns

C7_Witness ==
    \E p \in PRs :
        \E i \in DOMAIN seg[p] :
            /\ seg[p][i].op = "RecordFailure"
            /\ seg[p][i].skipsBefore > 0
            /\ i < Len(seg[p])
            /\ seg[p][Len(seg[p])].op = "IsOpen"
            /\ seg[p][Len(seg[p])].ret = FALSE

(***************************************************************************)
(* Properties of the breaker under concurrent callers.                     *)
(***************************************************************************)
\* The breaker and every value returned are those of the calls made one at a
\* time, in the order of their writes.
Atomic == cb = lin /\ returned = linReturned

\* C8: concurrent RecordFailure, IsOpen and RecordSuccess calls take effect
\* atomically (state and returned values are those of a sequential order of
\* the calls, no update lost), and every call that began returns.
C8_CallsAreAtomicAndReturn ==
    /\ []Atomic
    /\ \A g \in Goroutines : (pc[g] /= "idle") ~> (pc[g] = "idle")

C8_Witness ==
    /\ \A g \in Goroutines : pc[g] = "idle" /\ callsLeft[g] = 0
    /\ \E p \in PRs : cb.failures[p] >= 2 /\ cb.skipsRemaining[p] > 0

(***************************************************************************)
(* Properties of the retry policy.                                         *)
(***************************************************************************)
\* Out of invocations 1..calls, only the last can have succeeded, and then
\* the policy returns that success.
StopsAtFirstSuccess(out, results) ==
    \A k \in 1..out.calls :
        results[k].err.isNil => k = out.calls /\ out.err.isNil

\* C10: both primitives invoke the operation at most maxAttempts times and
\* not again after an invocation that succeeded, whose success (and result)
\* they return.
C10_AtMostMaxAttemptsAndStopOnSuccess ==
    retryOut.done =>
        /\ retryOut.plain.calls <= retryIn.cfg.MaxAttempts
        /\ retryOut.withResult.calls <= retryIn.cfg.MaxAttempts
        /\ StopsAtFirstSuccess(retryOut.plain, retryIn.results)
        /\ StopsAtFirstSuccess(retryOut.withResult, retryIn.results)
        /\ \A k \in 1..retryOut.withResult.calls :
              retryIn.results[k].err.isNil =>
                  retryOut.withResult.val = retryIn.results[k].val

C10_Witness ==
    /\ retryOut.done
    /\ retryIn.cfg.MaxAttempts = 3
    /\ ~retryIn.results[1].err.isNil
    /\ retryIn.results[2] = Ok("v2")
    /\ ~retryIn.results[3].err.isNil
    /\ retryOut.plain.calls = 2
    /\ retryOut.withResult.calls = 2
    /\ retryOut.withResult.val = "v2"

\* An invocation that failed with a Permanent error is the last one, and its
\* error is what the policy returns.
StopsAtPermanent(out, results) ==
    \A k \in 1..out.calls :
        (~results[k].err.isNil /\ IsPermanent(results[k].err)) =>
            k = out.calls /\ out.err = results[k].err

\* C11: when an invocation fails with an error classified Permanent, both
\* primitives return that error at once and do not invoke the operation
\* again, however many attempts remain.
C11_PermanentReturnsAtOnce ==
    retryOut.done =>
        /\ StopsAtPermanent(retryOut.plain, retryIn.results)
        /\ StopsAtPermanent(retryOut.withResult, retryIn.results)

C11_Witness ==
    /\ retryOut.done
    /\ retryIn.cfg.MaxAttempts = 3
    /\ retryIn.results[1] = Failed(Err({"Not Found"}))
    /\ retryIn.results[2] = Ok("v1")
    /\ retryOut.plain = [err |-> Err({"Not Found"}), calls |-> 1, slept |-> 0]
    /\ retryOut.withResult.calls = 1
    /\ retryOut.withResult.err = Err({"Not Found"})

\* The delay the policy is to wait after failed attempt number attempt.
backoff(cfg, attempt) == Min(cfg.BaseDelay * 2 ^ (attempt - 1), cfg.MaxDelay)

\* The delays due before attempts 2..calls, added up.
RECURSIVE backoffBefore(_, _)
backoffBefore(cfg, calls) ==
    IF calls <= 1 THEN 0 ELSE backoffBefore(cfg, calls - 1) + backoff(cfg, calls - 1)

\* C12: between a failed attempt and the next one the policy waits
\* baseDelay * 2^(attempt-1), capped at maxDelay: by the time attempt k has
\* been made the policy has slept the delays due before attempts 2..k.
C12_WaitsBeforeNextAttempt ==
    retryOut.done =>
        /\ retryOut.plain.slept >= backoffBefore(retryIn.cfg, retryOut.plain.calls)
        /\ retryOut.withResult.slept >=
               backoffBefore(retryIn.cfg, retryOut.withResult.calls)

(***************************************************************************)
(* The pipeline run.                                                       *)
(***************************************************************************)
Range(s) == {s[i] : i \in DOMAIN s}

\* The snapshot carries the do-not-touch label (whatever its case and
\* padding) or the phrase in its title or body.
MarkedDoNotTouch(v) ==
    \/ \E i \in DOMAIN v.Labels : ToLower(TrimSpace(v.Labels[i])) = "do not touch"
    \/ Contains({ToLower(v.Title), ToLower(v.Body)}, "do not touch")

\* The iteration made last called the merge operation or recorded 'merged'.
MergeAttempted ==
    /\ runResults /= <<>>
    /\ \/ "ghMergePR" \in Range(lastIter.calls)
       \/ runResults[Len(runResults)].Action = "merged"

\* C1: the merge operation is invoked for a PR, and an outcome 'merged' is
\* recorded, only if the snapshot fetched for it in this iteration is not a
\* draft, is not do-not-touch and passes every gate (MERGEABLE, aggregate
\* checks SUCCESS, review decision neither CHANGES_REQUESTED nor
\* REVIEW_REQUIRED), the run is not a dry run and the breaker gate did not
\* report the PR open.
C1_MergeOnlyAtPassingGates ==
    MergeAttempted =>
        /\ ~flags.dryRun
        /\ ~lastIter.gateOpen
        /\ lastIter.view /= NoView
        /\ lastIter.view.URL = runResults[Len(runResults)].URL
        /\ ~lastIter.view.IsDraft
        /\ ~MarkedDoNotTouch(lastIter.view)
        /\ SaysMergeable(lastIter.view.Mergeable)
        /\ overallChecksState(lastIter.view.StatusCheckRollup) = "SUCCESS"
        /\ ~SaysChangesRequested(lastIter.view.ReviewDecision)
        /\ ~SaysReviewRequired(lastIter.view.ReviewDecision)

\* A PR was merged after the gate and the snapshot fetch, in a run that
\* had skipped or commented another PR before.
C1_Witness ==
    /\ Len(runResults) = 2
    /\ runResults[1].Action /= "merged"
    /\ runResults[2].Action = "merged"
    /\ lastIter.calls = <<"IsOpen", "ghPRView", "ghMergePR", "RecordSuccess">>
    /\ runResults[2].URL \in github.merged

\* C9: once cbFailureThreshold runs in a row have failed on a PR, the PR is
\* skipped by the breaker (skipped/circuit_breaker) in each of the next
\* cbSkipRuns runs, and processed again in the run after these.
C9_SkippedAcrossRuns ==
    phase = "loop" =>
        \A p \in PRs :
            Outcomes(p) /= {} =>
                LET o == FirstOutcome(p)
                    skipped == o.Action = "skipped" /\ o.Reason = "circuit_breaker"
                IN  skipped <=> owed[p].owed > 0

(***************************************************************************)
(* Properties of classifyError.                                            *)
(***************************************************************************)
HoldsPermanent(err) == ~err.isNil /\ err.text \cap PermanentFragments /= {}

HoldsTransient(err) == ~err.isNil /\ err.text \cap TransientFragments /= {}

\* C13: an error whose message holds a permanent indicator, in whatever
\* case, is classified Permanent and never Transient, also when the message
\* holds transient indicators as well.
C13_PermanentIndicatorWins ==
    (errKind /= NotClassified /\ HoldsPermanent(errIn)) => errKind = "Permanent"

C13_Witness ==
    /\ errIn = Err({"Timeout", "HTTP 404"})
    /\ errKind = "Permanent"

\* C14: classifyError returns Unknown exactly for the nil error; a non-nil
\* error whose message holds no permanent indicator is Transient, whether
\* it holds a transient indicator or not.
C14_UnknownOnlyForNil ==
    errKind /= NotClassified =>
        /\ errKind = "Unknown" <=> errIn.isNil
        /\ (~errIn.isNil /\ ~HoldsPermanent(errIn)) => errKind = "Transient"

C14_Witness ==
    /\ errIn = Err({"boom", "archived"})
    /\ ~HoldsTransient(errIn)
    /\ errKind = "Transient"

(***************************************************************************)
(* Properties of the per-PR loop.                                          *)
(***************************************************************************)
Actions ==
    {"skipped", "error", "merged", "conflict_resolved", "commented", "lint_dispatched",
     "review_dispatched"}

\* The URLs of the first n candidates of the sorted list.
FirstCandidates(n) == {selected[i].URL : i \in 1..Min(n, Len(selected))}

\* C15: once a run is past the listing, every candidate taken for
\* processing has exactly one outcome in the result sequence, whatever path
\* the iteration took: the k-th outcome is that of the k-th candidate, and
\* there are as many outcomes as candidates taken.
C15_OneOutcomePerProcessedPR ==
    phase \in {"loop", "exited"} =>
        /\ Len(runResults) = acted
        /\ acted <= Len(selected)
        /\ \A k \in 1..Len(runResults) :
              /\ runResults[k].URL = selected[k].URL
              /\ runResults[k].Action \in Actions

C15_Witness ==
    /\ phase = "exited"
    /\ acted = 2
    /\ Len(runResults) = 2
    /\ runResults[1].Action = "error"
    /\ runResults[2].Action = "skipped"
    /\ lastIter.calls = <<"IsOpen", "ghPRView", "RecordSuccess">>

\* C16: a run takes at most maxPRs candidates: there are never more than
\* maxPRs outcomes, and what the run fetched, merged or commented on is
\* among the first maxPRs candidates of the sorted list.
C16_AtMostMaxPRs ==
    phase \in {"loop", "exited"} =>
        /\ acted <= flags.maxPRs
        /\ Len(runResults) <= flags.maxPRs
        /\ lastIter /= NoIteration => lastIter.URL \in FirstCandidates(flags.maxPRs)
        /\ github.merged \subseteq FirstCandidates(flags.maxPRs)
        /\ \A p \in PRs :
              github.comments[p] /= <<>> => p \in FirstCandidates(flags.maxPRs)

C16_Witness ==
    /\ phase = "exited"
    /\ emitted.documents = 1
    /\ flags.maxPRs = 1
    /\ Len(selected) = 2
    /\ selected[1].URL /= selected[2].URL
    /\ Len(runResults) = 1
    /\ runResults[1].URL \in github.merged

LastOutcome == runResults[Len(runResults)]

BreakerCalls == {"RecordFailure", "RecordSuccess"}

\* C17: RecordFailure is called for a PR only when a retried operation ended
\* with an error that is not Permanent; an iteration whose retried operation
\* ended with a Permanent error calls neither RecordFailure nor
\* RecordSuccess and leaves the breaker as the gate check left it.
C17_RecordFailureOnlyForRetriedFailures ==
    [][Len(runResults') = Len(runResults) + 1 =>
          LET o      == runResults'[Len(runResults')]
              calls  == Range(lastIter'.calls)
              failed == lastIter'.failed
          IN  /\ "RecordFailure" \in calls =>
                    /\ ~failed.isNil /\ ~IsPermanent(failed)
                    /\ o.Action = "error" /\ o.ReasonErr = failed
                    /\ cb' = RecordFailure(IsOpen(cb, o.URL).cb, o.URL)
              /\ (~failed.isNil /\ IsPermanent(failed)) =>
                    /\ calls \cap BreakerCalls = {}
                    /\ cb' = IsOpen(cb, o.URL).cb]_vars

C17_Witness ==
    /\ Len(runResults) = 2
    /\ runResults[1].URL = runResults[2].URL
    /\ runResults[1].Action = "error" /\ ~IsPermanent(runResults[1].ReasonErr)
    /\ runResults[2].Action = "error" /\ IsPermanent(runResults[2].ReasonErr)
    /\ lastIter.calls = <<"IsOpen", "ghPRView", "ghMergePR">>
    /\ cb.failures[runResults[2].URL] = 1

\* The last iteration got as far as the merge gates, which did not pass, for
\* a PR whose repository is in the batch-fetched archived set.
BlockedInArchivedRepo ==
    /\ lastIter.view /= NoView
    /\ ~lastIter.view.IsDraft
    /\ ~MarkedDoNotTouch(lastIter.view)
    /\ ~mergeAllowed(lastIter.view)[1]
    /\ ~archivedRepos.isNil
    /\ RepoOf(lastIter.URL) \in archivedRepos.repos

\* C18: a PR that may not be merged and whose repository is in the archived
\* set is skipped with repo_archived before any handling of its reason: no
\* branch update, no comment and no alert is attempted for it.
C18_ArchivedBeforeReasonHandling ==
    BlockedInArchivedRepo =>
        /\ LastOutcome.Action = "skipped"
        /\ LastOutcome.Reason = "repo_archived"
        /\ Range(lastIter.calls) \cap {"ghPRUpdateBranch", "ghPRComments", "ghPRComment",
                                       "discordSendMessage"} = {}

\* C19: a comment post that fails with an error the archived predicate
\* recognises gives the outcome skipped/repo_archived, never an error,
\* whatever the kind of the error, and the breaker is not told.
C19_ArchivedCommentFailureIsASkip ==
    ("ghPRComment" \in Range(lastIter.calls) /\ IsArchivedError(lastIter.failed)) =>
        /\ LastOutcome.Action = "skipped"
        /\ LastOutcome.Reason = "repo_archived"
        /\ LastOutcome.ReasonErr = NoError
        /\ Range(lastIter.calls) \cap BreakerCalls = {}

C19_Witness ==
    /\ lastIter.calls = <<"IsOpen", "ghPRView", "ghPRComment">>
    /\ IsArchivedError(lastIter.failed)
    /\ IsTransient(lastIter.failed)
    /\ archivedRepos.isNil
    /\ LastOutcome.Action = "skipped"
    /\ LastOutcome.Reason = "repo_archived"

\* The comments on PR p that hold the conflict marker.
ConflictNotices(p) ==
    {i \in DOMAIN github.comments[p] : Contains(github.comments[p][i], conflictMarker)}

\* C20: the conflict notice is not posted to a PR whose comments already
\* hold the conflict marker, in one run or over several: a PR never carries
\* more than one conflict notice.
C20_ConflictNoticePostedOnce ==
    \A p \in PRs : Cardinality(ConflictNotices(p)) <= 1

\* The comments on PR p that are blocker comments, not conflict notices.
BlockerComments(p) == DOMAIN github.comments[p] \ ConflictNotices(p)

\* C21: over repeated runs the same blocker comment is not posted to a PR
\* more than once: no PR carries two blocker comments with the same body.
C21_BlockerCommentPostedOnce ==
    \A p \in PRs :
        \A i, j \in BlockerComments(p) :
            github.comments[p][i] = github.comments[p][j] => i = j

\* The calls that change a PR on GitHub.
WritingCalls == {"ghMergePR", "ghPRComment", "ghPRUpdateBranch"}

\* The last iteration got past the hard stops with a PR that a run that is
\* not dry would have merged or gone on to handle (it is not skipped for an
\* archived repository).
WouldHaveActed ==
    /\ lastIter.view /= NoView
    /\ ~lastIter.view.IsDraft
    /\ ~MarkedDoNotTouch(lastIter.view)
    /\ ~(LastOutcome.Action = "skipped" /\ LastOutcome.Reason = "repo_archived")

\* C22: in a dry run nothing is merged, commented or updated: GitHub stays
\* untouched, no writing call is made, and a PR that would have been merged
\* or commented is skipped with reason dry_run_ followed by what was found.
C22_DryRunWritesNothing ==
    flags.dryRun =>
        /\ github = Untouched
        /\ Range(lastIter.calls) \cap WritingCalls = {}
        /\ \A k \in DOMAIN runResults : runResults[k].Action \in {"skipped", "error"}
        /\ WouldHaveActed =>
              LET allowed == mergeAllowed(lastIter.view)
              IN  /\ LastOutcome.Action = "skipped"
                  /\ LastOutcome.Reason =
                        "dry_run_" \o (IF allowed[1] THEN "mergeable" ELSE allowed[2])

C22_Witness ==
    /\ flags.dryRun
    /\ Len(runResults) = 2
    /\ runResults[1].Reason = "dry_run_mergeable"
    /\ runResults[2].Action = "skipped"
    /\ runResults[2].Reason \in {"dry_run_mergeable_conflicting", "dry_run_checks_failure",
                                  "dry_run_review_changes_requested"}
    /\ lastIter.calls = <<"IsOpen", "ghPRView", "RecordSuccess">>
    /\ github = Untouched

\* The hours between the emission the gate found in the state file and the
\* call of the gate.
SincePriorPost == dedupGate.now - ParseTime(dedupLoaded.state.LastPostedAt)

\* C23: the dedup gate decides in this order: no prior state, post; the
\* current hash is the empty sentinel, post; the current hash differs from
\* the prior one, post; it equals the prior one and less than 2 hours have
\* passed since the prior emission, suppress with a non-empty reason; it
\* equals the prior one and at least 2 hours have passed, post again.
C23_GateRulesInOrder ==
    dedupGate.made =>
        LET prior == dedupLoaded.state
            hash == dedupGate.hash
        IN  /\ prior = ZeroState => dedupGate.should
            /\ prior /= ZeroState /\ hash = "" => dedupGate.should
            /\ prior /= ZeroState /\ hash /= "" /\ hash /= prior.Hash => dedupGate.should
            /\ prior /= ZeroState /\ hash /= "" /\ hash = prior.Hash /\ SincePriorPost < 2
                  => ~dedupGate.should /\ dedupGate.reason /= ""
            /\ prior /= ZeroState /\ hash /= "" /\ hash = prior.Hash /\ SincePriorPost >= 2
                  => dedupGate.should

C23_Witness ==
    /\ dedupGate.made
    /\ dedupLoaded.state /= ZeroState
    /\ dedupGate.hash /= ""
    /\ dedupGate.hash = dedupLoaded.state.Hash
    /\ SincePriorPost = 2
    /\ dedupGate.should

\* How often outcome o occurs in results.
Occurrences(results, o) == Cardinality({i \in DOMAIN results : results[i] = o})

IsPermutation(a, b) ==
    \A o \in Range(a) \cup Range(b) : Occurrences(a, o) = Occurrences(b, o)

\* C24: hashResults gives the same hash for every permutation of a
\* sequence of outcomes, different hashes for two sequences that differ in
\* a field of an outcome, and the empty string for the empty sequence and
\* for no other.
C24_HashOfTheOutcomeBag ==
    dedupHashes.made =>
        /\ dedupHashes.hashA = dedupHashes.hashB <=> IsPermutation(dedupHashes.a, dedupHashes.b)
        /\ dedupHashes.hashA = "" <=> dedupHashes.a = <<>>

C24_Witness ==
    /\ dedupHashes.made
    /\ Len(dedupHashes.a) = 2
    /\ dedupHashes.a /= dedupHashes.b
    /\ dedupHashes.hashA = dedupHashes.hashB

\* C25: loading a missing or corrupt state file yields the zero-value
\* state and the gate then posts; a state saved with saveState is read
\* back with the same hash and a non-empty timestamp.
C25_LostStateIsNoState ==
    dedupLoaded.made =>
        /\ dedupLoaded.from.kind \in {"missing", "corrupt"}
              => /\ dedupLoaded.state = ZeroState
                 /\ dedupGate.made => dedupGate.should
        /\ \A hash \in GateHashes : \A t \in 0..MaxClock :
              dedupLoaded.from = saveState(hash, t)
                  => /\ dedupLoaded.state.Hash = hash
                     /\ dedupLoaded.state.LastPostedAt /= ""

C25_Witness ==
    /\ dedupLoaded.made
    /\ dedupLoaded.from.kind = "corrupt"
    /\ dedupGate.made
    /\ dedupGate.hash /= ""
    /\ dedupGate.should

\* C26: the summary of a run is published only if the dedup gate allows it:
\* of two runs in a row with the same non-empty outcomes that end less than
\* 2 hours apart, at most one sends its summary to the report channel.
C26_SummaryOnlyWhenGateAllows ==
    /\ reported.prior.made
    /\ reported.last.made
    /\ reported.last.results /= <<>>
    /\ reported.last.results = reported.prior.results
    /\ reported.gap < dedupWindowHours
    => ~(reported.prior.summary /\ reported.last.summary)

\* The document of the run reports a failed listing.
ScanFailed ==
    emitted.Error \cap {"scan failed (permanent)", "scan failed (after retries)"} /= {}

\* C27: a failure to list the open PRs is fatal for the run: no PR is
\* processed, one JSON document with ok false is written and the process
\* exits with a failure status.
C27_ListingFailureIsFatal ==
    ScanFailed =>
        /\ phase = "exited"
        /\ emitted.documents = 1
        /\ ~emitted.Ok
        /\ emitted.exitCode /= 0
        /\ runResults = <<>>
        /\ acted = 0
        /\ lastIter = NoIteration
        /\ github = Untouched

C27_Witness ==
    /\ "scan failed (after retries)" \in emitted.Error
    /\ phase = "exited"
    /\ runNo = 1

\* The document of the run reports that the summary or the alert could not
\* be posted.
PostFailed ==
    emitted.Error \cap {"DISCORD_BOT_TOKEN missing", "discord send failed (500)"} /= {}

\* C28: a process that has ended has written exactly one JSON document; it
\* exits with a failure status exactly when the document's ok is false; ok
\* is false only for a failed listing or a failed post, so the errors of
\* single PRs leave it true.
C28_OneDocumentAndExitFollowsOk ==
    phase = "exited" =>
        /\ emitted.documents = 1
        /\ emitted.exitCode /= 0 <=> ~emitted.Ok
        /\ ~emitted.Ok <=> ScanFailed \/ PostFailed

C28_Witness ==
    /\ phase = "exited"
    /\ \E i \in DOMAIN runResults : runResults[i].Action = "error"
    /\ emitted.documents = 1
    /\ emitted.Ok
    /\ emitted.exitCode = 0

\* C29: every text handed to the notification transport that is longer
\* than 1900 characters is cut and ends with the truncation marker, so that
\* no text sent is longer than the 2000 characters Discord accepts.
C29_LongTextsAreTruncated ==
    noteOut.sent =>
        /\ noteOut.raw > 1900 => noteOut.text.marker /\ noteOut.text.len < noteOut.raw
        /\ noteOut.text.len <= 2000

\* The category the keywords give a check name; "" for a name that matches
\* none.
ExpectedCategory(name) ==
    CASE name \in {"golangci-lint", "ESLint"} -> "lint"
      [] name = "Unit Tests" -> "test"
      [] name = "build" -> "build"
      [] OTHER -> ""

\* The categories of the entries whose conclusion is FAILURE in some
\* spelling and whose name matches a keyword.
ContributedCategories ==
    {ExpectedCategory(e.Name) :
        e \in {f \in Range(view.StatusCheckRollup) :
                  /\ f.Conclusion \in {"FAILURE", "failure", " FAILURE "}
                  /\ ExpectedCategory(f.Name) /= ""}}

\* C30: in classifyCIFailure only the entries whose conclusion is FAILURE,
\* in any case, contribute a category; SUCCESS, SKIPPED, NEUTRAL, pending
\* and missing conclusions change nothing, and a FAILURE whose name matches
\* no keyword contributes nothing.
C30_OnlyMatchedFailuresContribute ==
    evalOut.done =>
        evalOut.ciType =
            IF ContributedCategories = {} THEN "unknown"
            ELSE IF Cardinality(ContributedCategories) > 1 THEN "mixed"
            ELSE CHOOSE cat \in ContributedCategories : TRUE

C30_Witness ==
    /\ evalOut.done
    /\ Len(view.StatusCheckRollup) = 2
    /\ view.StatusCheckRollup[1].Name = "unknown-check"
    /\ view.StatusCheckRollup[1].Conclusion = "FAILURE"
    /\ view.StatusCheckRollup[2].Name = "golangci-lint"
    /\ view.StatusCheckRollup[2].Conclusion = "failure"
    /\ evalOut.ciType = "lint"

\* The rollup of the snapshot in every order of its entries.
Reorderings(entries) ==
    {[i \in DOMAIN entries |-> entries[p[i]]] : p \in Permutations(DOMAIN entries)}

C32_GateBeforeAnyOperation ==
    [][Len(runResults') = Len(runResults) + 1 =>
          LET o   == runResults'[Len(runResults')]
              url == o.URL
          IN  /\ lastIter'.calls[1] = "IsOpen"
              /\ lastIter'.gateOpen <=> cb.skipsRemaining[url] > 0
              /\ o.Reason = "circuit_breaker" => lastIter'.gateOpen
              /\ lastIter'.gateOpen =>
                    /\ lastIter'.calls = <<"IsOpen">>
                    /\ lastIter'.view = NoView
                    /\ github' = github
                    /\ o.Action = "skipped"
                    /\ o.Reason = "circuit_breaker"
                    /\ cb'.skipsRemaining[url] = cb.skipsRemaining[url] - 1
                    /\ \A p \in PRs \ {url} : cb'.skipsRemaining[p] = cb.skipsRemaining[p]]_vars

C32_Witness ==
    /\ lastIter.gateOpen
    /\ lastIter.calls = <<"IsOpen">>
    /\ LastOutcome.Reason = "circuit_breaker"
    /\ cb.skipsRemaining[LastOutcome.URL] = cb.skipRuns - 1

\* The IsOpen call at i spent the last unit of the skip budget.
SpentLastSkip(s, i) == s[i].op = "IsOpen" /\ s[i].ret /\ s[i].skipsAfter = 0

\* C33: when the IsOpen call that spends the last unit of a PR's skip
\* budget returns, the PR's failure count is zero; the next RecordFailure
\* does not reopen the circuit, which stays closed until failureThreshold
\* new failures have come and opens at the failureThreshold-th.
C33_ClosedWindowStartsFromZero ==
    \A p \in PRs :
        LET s == seg[p]
            N == cb.failureThreshold
        IN  \A i \in DOMAIN s :
                SpentLastSkip(s, i) =>
                    /\ s[i].failuresAfter = 0
                    /\ \A j \in (i + 1)..Len(s) :
                          (\A x \in (i + 1)..j : ~SpentLastSkip(s, x)) =>
                              LET n == Count(s, "RecordFailure", i + 1, j)
                              IN  /\ n < N => s[j].skipsAfter = 0 /\ ~s[j].ret
                                  /\ s[j].op = "RecordFailure" /\ n <= N
                                        => s[j].failuresAfter = n
                                  /\ s[j].op = "RecordFailure" /\ n = N
                                        => s[j].skipsAfter = cb.skipRuns

C33_Witness ==
    \E p \in PRs :
        \E i \in DOMAIN seg[p] :
            /\ cb.failureThreshold >= 2
            /\ SpentLastSkip(seg[p], i)
            /\ Len(seg[p]) >= i + 2
            /\ seg[p][i + 1].op = "RecordFailure"
            /\ seg[p][i + 2].op = "IsOpen"
            /\ ~seg[p][i + 2].ret

\* C36: after any sequence of RecordFailure, RecordSuccess and IsOpen calls,
\* for every PR: the skip budget lies between 0 and skipRuns, the failure
\* count is not negative, and a PR with skip budget left has at least
\* failureThreshold failures.
C36_BreakerCountsInRange ==
    \A p \in PRs :
        /\ cb.skipsRemaining[p] >= 0
        /\ cb.skipsRemaining[p] <= cb.skipRuns
        /\ cb.failures[p] >= 0
        /\ cb.skipsRemaining[p] > 0 => cb.failures[p] >= cb.failureThreshold

C36_Witness ==
    \E p \in PRs :
        /\ cb.failureThreshold >= 2
        /\ cb.skipsRemaining[p] > 0
        /\ cb.skipsRemaining[p] < cb.skipRuns
        /\ cb.failures[p] > cb.failureThreshold
        /\ segStart[p].how = "success"

\* The last iteration got past the hard stops with a conflicting snapshot,
\* not in a dry run.
ConflictIteration ==
    /\ ~flags.dryRun
    /\ lastIter.view /= NoView
    /\ ~lastIter.view.IsDraft
    /\ ~MarkedDoNotTouch(lastIter.view)
    /\ mergeAllowed(lastIter.view)[2] = "mergeable_conflicting"

C35_BothPrimitivesBehaveAlike ==
    retryOut.done =>
        /\ retryOut.plain.calls = retryOut.withResult.calls
        /\ retryOut.plain.err = retryOut.withResult.err

C35_Witness ==
    /\ retryOut.done
    /\ retryIn.cfg.MaxAttempts = 3
    /\ retryIn.results[1] = Failed(Err({"Timeout"}))
    /\ retryIn.results[2] = Failed(Err({"Not Found"}))
    /\ retryIn.results[3] = Ok("v1")
    /\ retryOut.plain.calls = 2
    /\ retryOut.withResult.calls = 2
    /\ retryOut.plain.err = Err({"Not Found"})
    /\ retryOut.withResult.err = Err({"Not Found"})

\* The policy returned success after an invocation that succeeded.
SuccessWasEarned(out, results) ==
    out.err.isNil => \E k \in 1..out.calls : results[k].err.isNil

\* C39: for every retry configuration, maxAttempts <= 0 included, Retryable
\* and RetryableWithResult return a nil error only if some invocation of the
\* operation returned success; when none did the error is not nil.
C39_SuccessOnlyAfterSuccessfulInvocation ==
    retryOut.done =>
        /\ SuccessWasEarned(retryOut.plain, retryIn.results)
        /\ SuccessWasEarned(retryOut.withResult, retryIn.results)

\* The candidates of the run have pairwise distinct PR URLs.
DistinctURLs ==
    \A i \in DOMAIN selected, j \in DOMAIN selected :
        i /= j => selected[i].URL /= selected[j].URL

\* The number of RecordFailure calls of the last iteration.
FailuresRecorded == Cardinality({k \in DOMAIN lastIter.calls : lastIter.calls[k] = "RecordFailure"})

ConflictPostFailure == Err(lastIter.failed.text \ buildCommentBody(lastIter.view, "mergeable_conflicting"))

\* The post of the conflict notice failed for good with a transient failure
\* that the archived predicate does not recognise.
ConflictPostTimedOut ==
    /\ ConflictIteration
    /\ "ghPRComment" \in Range(lastIter.calls)
    /\ ~lastIter.failed.isNil
    /\ IsTransient(ConflictPostFailure)
    /\ ~IsArchivedError(lastIter.failed)

\* C38: a transient failure of the post of the conflict notice is handled
\* like any other transient failure: after the retries the outcome is an
\* error marked 'after retries' and one RecordFailure is recorded for the
\* PR, whatever the arguments of the call put into the error text.
C38_ConflictPostFailureIsRetried ==
    ConflictPostTimedOut =>
        /\ LastOutcome.Action = "error"
        /\ LastOutcome.Reason = "conflict comment failed (after retries)"
        /\ lastIter.calls[Len(lastIter.calls)] = "RecordFailure"
        /\ cb.failures[lastIter.URL] >= 1

\* The four counters of summarize over the outcomes of the run, added up.
Summarized ==
    LET s == summarize(runResults)
    IN  s.merged + s.commented + s.skipped + s.errs

\* C40: summarize counts every outcome of a run in exactly one of its four
\* counters, so that merged + commented + skipped + errors is the number of
\* outcomes; review_dispatched and lint_dispatched count as commented.
C40_SummarizePartitionsOutcomes ==
    /\ Summarized = Len(runResults)
    /\ summarize(runResults).commented =
           Cardinality({i \in DOMAIN runResults :
                           runResults[i].Action \in {"commented", "review_dispatched",
                                                     "lint_dispatched"}})

====
